-------------------------- MODULE OrderBookProofs ---------------------------
(***************************************************************************)
(* Proofs about OrderBook.  First the containers: after every step of      *)
(* every call, for every ring size, every set of orders, prices,           *)
(* quantities and quotes, and whether or not rings overflow, the two       *)
(* vectors of levels are sorted, agree with the map from prices to levels, *)
(* and are not crossed.  Then what the rings hold, as long as none is      *)
(* filled to its last slot: no resting order is lost, the rings are        *)
(* queues, and the book implements the price-time-priority book of         *)
(* LimitOrderBook.                                                         *)
(***************************************************************************)
EXTENDS OrderBook, SetSums, TLAPS

(* The counter of a ring never falls behind its cursors, also once add_order *)
(* has wrapped over a full ring and head has met tail.                      *)
RingOK(L) == L \in Level /\ Span(L) <= L.size

(* The ring has slots.                                                     *)
LEMMA RingSize == MAX_ORDERS \in Nat /\ MAX_ORDERS > 0
<1>1. MAX_ORDERS \in Nat /\ 1 .. MAX_ORDERS # {}
  BY RingAssumption
<1> QED BY <1>1

(* The span is less than the ring.                                         *)
LEMMA SpanType ==
    ASSUME NEW L \in Level
    PROVE  Span(L) \in 0 .. MAX_ORDERS - 1 /\ (Span(L) = 0 <=> L.head = L.tail)
BY RingSize DEF Level, Slots, Span

(* What RingOK says of the parts of a level.                               *)
LEMMA RingParts ==
    ASSUME NEW L, RingOK(L)
    PROVE  /\ L \in Level /\ L.size \in Nat /\ L.total \in Int
           /\ L.head \in Slots /\ L.tail \in Slots
           /\ L.buffer \in [Slots -> Orders \cup {NoOrder}]
           /\ Span(L) \in 0 .. MAX_ORDERS - 1 /\ Span(L) <= L.size
           /\ (Span(L) = 0 <=> L.head = L.tail)
<1>1. L \in Level /\ Span(L) <= L.size
  BY DEF RingOK
<1>2. Span(L) \in 0 .. MAX_ORDERS - 1 /\ (Span(L) = 0 <=> L.head = L.tail)
  BY <1>1, SpanType
<1> QED BY <1>1, <1>2 DEF Level

(* The mask keeps a cursor within the ring.                                *)
LEMMA SlotType ==
    ASSUME NEW i \in Slots, NEW k \in 0 .. MAX_ORDERS
    PROVE  Slot(i, k) \in Slots
BY RingSize DEF Slots, Slot

(* The distance of two cursors.                                            *)
Distance(h, t) == IF h <= t THEN t - h ELSE t + MAX_ORDERS - h

(* Moving the head k places towards the tail brings it k places closer.    *)
LEMMA HeadMoves ==
    ASSUME NEW h \in Slots, NEW t \in Slots, NEW k \in Nat, k <= Distance(h, t)
    PROVE  Distance(Slot(h, k), t) = Distance(h, t) - k
<1>1. MAX_ORDERS \in Nat /\ h \in Nat /\ t \in Nat /\ h < MAX_ORDERS /\ t < MAX_ORDERS
  BY RingSize DEF Slots
<1>2. CASE h <= t
  BY <1>1, <1>2 DEF Distance, Slot
<1>3. CASE ~(h <= t) /\ h + k < MAX_ORDERS
  BY <1>1, <1>3 DEF Distance, Slot
<1>4. CASE ~(h <= t) /\ ~(h + k < MAX_ORDERS)
  BY <1>1, <1>4 DEF Distance, Slot
<1> QED BY <1>2, <1>3, <1>4

(* The span is the distance of the cursors.                                *)
LEMMA SpanIsDistance ==
    ASSUME NEW L PROVE Span(L) = Distance(L.head, L.tail)
BY DEF Span, Distance

(* advance() stops: either at a live order or at the tail.                 *)
LEMMA DeadRunExists ==
    ASSUME NEW L \in Level, NEW live
    PROVE  DeadRun(L, live) \in 0 .. Span(L) /\ IsDeadRun(L, live, DeadRun(L, live))
<1> DEFINE T == {k \in 0 .. Span(L) : k = Span(L) \/ L.buffer[Slot(L.head, k)] \in live}
<1>1. Span(L) \in T /\ T \subseteq Nat
  BY SpanType
<1>2. PICK k \in T : \A y \in T : k <= y
  BY <1>1, LeastNatural
<1>3. \A j \in 0 .. k - 1 : j \in 0 .. Span(L) /\ j \notin T
  BY <1>1, <1>2, SpanType
<1>4. IsDeadRun(L, live, k)
  BY <1>2, <1>3 DEF IsDeadRun
<1> QED BY <1>2, <1>4 DEF DeadRun

(* What advance() leaves: a ring of the same kind with the same tail, and  *)
(* a live order at its head unless it is exhausted.  It only clears slots. *)
LEMMA AdvanceProperties ==
    ASSUME NEW L, RingOK(L), NEW live
    PROVE  /\ RingOK(Advance(L, live))
           /\ Advance(L, live).total = L.total
           /\ \A i \in Slots : Advance(L, live).buffer[i] \in {L.buffer[i], NoOrder}
           /\ ~Exhausted(Advance(L, live)) =>
                 /\ HeadOrder(Advance(L, live)) \in live
                 /\ \E i \in Slots : HeadOrder(Advance(L, live)) = L.buffer[i]
<1> DEFINE k == DeadRun(L, live)
           A == Advance(L, live)
           dropped == {Slot(L.head, j) : j \in 0 .. k - 1}
<1>1. /\ L \in Level /\ L.size \in Nat /\ Span(L) \in 0 .. MAX_ORDERS - 1
      /\ Span(L) <= L.size
  BY RingParts
<1>2. k \in 0 .. Span(L) /\ IsDeadRun(L, live, k)
  BY <1>1, DeadRunExists
<1>3. /\ A.buffer = [i \in Slots |-> IF i \in dropped THEN NoOrder ELSE L.buffer[i]]
      /\ A.head = Slot(L.head, k) /\ A.tail = L.tail /\ A.size = L.size - k /\ A.total = L.total
      /\ A = [buffer |-> A.buffer, head |-> A.head, tail |-> A.tail, size |-> A.size,
              total |-> A.total]
  BY <1>1 DEF Advance, Level
<1>4. A.head \in Slots
  <2>1. L.head \in Slots
    BY <1>1 DEF Level
  <2>2. k \in 0 .. MAX_ORDERS
    BY <1>1, <1>2, RingSize
  <2> HIDE DEF k
  <2> QED BY <1>3, <2>1, <2>2, SlotType
<1>5. A \in Level
  BY <1>1, <1>2, <1>3, <1>4 DEF Level
<1>6. Span(A) = Span(L) - k
  <2>1. L.head \in Slots /\ L.tail \in Slots
    BY <1>1 DEF Level
  <2>2. k \in Nat /\ k <= Distance(L.head, L.tail)
    BY <1>1, <1>2, SpanIsDistance
  <2> HIDE DEF k, A
  <2> QED BY <1>3, <2>1, <2>2, HeadMoves, SpanIsDistance
<1>7. ASSUME ~Exhausted(A)
      PROVE  /\ HeadOrder(A) \in live
             /\ \E i \in Slots : HeadOrder(A) = L.buffer[i]
  <2>1. k # Span(L)
    BY <1>5, <1>6, <1>7, <1>1, <1>2, SpanType DEF Exhausted
  <2>2. L.buffer[Slot(L.head, k)] \in live
    BY <1>2, <2>1 DEF IsDeadRun
  <2>3. \A j \in 0 .. k - 1 : Slot(L.head, j) # Slot(L.head, k)
    BY <1>1, <1>2, RingSize DEF Slot, Level, Slots
  <2>4. A.head \notin dropped
    BY <1>3, <2>3
  <2>5. HeadOrder(A) = L.buffer[Slot(L.head, k)]
    BY <1>3, <1>4, <2>4 DEF HeadOrder
  <2> QED BY <1>3, <1>4, <2>2, <2>5
<1>8. RingOK(A)
  <2> HIDE DEF A, k
  <2> QED BY <1>1, <1>2, <1>3, <1>5, <1>6 DEF RingOK
<1>9. \A i \in Slots : A.buffer[i] \in {L.buffer[i], NoOrder}
  <2> HIDE DEF A, k
  <2> QED BY <1>3
<1> QED BY <1>3, <1>7, <1>8, <1>9

(* add_order() on any ring, full or not.                                   *)
LEMMA PushBackProperties ==
    ASSUME NEW L, RingOK(L), NEW o \in Orders, NEW r \in Nat, r > 0
    PROVE  /\ RingOK(PushBack(L, o, r))
           /\ PushBack(L, o, r).size = L.size + 1
           /\ \A i \in Slots : PushBack(L, o, r).buffer[i] \in {L.buffer[i], o}
<1> DEFINE P == PushBack(L, o, r)
<1>1. /\ L \in Level /\ L.size \in Nat /\ Span(L) \in 0 .. MAX_ORDERS - 1
      /\ Span(L) <= L.size /\ L.tail \in Slots /\ L.buffer \in [Slots -> Orders \cup {NoOrder}]
  BY RingParts
<1>2. /\ P.buffer = [L.buffer EXCEPT ![L.tail] = o] /\ P.head = L.head
      /\ P.tail = Slot(L.tail, 1) /\ P.size = L.size + 1 /\ P.total = L.total + r
      /\ P = [buffer |-> P.buffer, head |-> P.head, tail |-> P.tail, size |-> P.size,
              total |-> P.total]
  BY <1>1 DEF PushBack, Level
<1>3. P \in Level
  BY <1>1, <1>2, SlotType, RingSize DEF Level
<1>4. Span(P) <= Span(L) + 1
  <2>1. L.head \in Slots /\ L.tail \in Slots
    BY <1>1 DEF Level
  <2>2. P.head = L.head /\ P.tail = Slot(L.tail, 1)
    BY <1>2
  <2> HIDE DEF P
  <2> QED BY <2>1, <2>2, RingSize DEF Span, Slot, Slots
<1>5. RingOK(P)
  <2>1. Span(P) \in 0 .. MAX_ORDERS - 1
    BY <1>3, SpanType
  <2> HIDE DEF P
  <2> QED BY <1>1, <1>2, <1>3, <1>4, <2>1, RingSize DEF RingOK
<1> QED
  <2> HIDE DEF P
  <2>1. \A i \in Slots : P.buffer[i] \in {L.buffer[i], o}
    BY <1>1, <1>2
  <2> QED BY <1>2, <1>5, <2>1 DEF P

(* The fill against the head of a ring that is not exhausted.              *)
LEMMA FillFrontProperties ==
    ASSUME NEW L, RingOK(L), ~Exhausted(L), NEW q \in Nat, NEW left \in Nat
    PROVE  /\ RingOK(FillFront(L, q, left))
           /\ \A i \in Slots : FillFront(L, q, left).buffer[i] \in {L.buffer[i], NoOrder}
<1> DEFINE F == FillFront(L, q, left)
<1>1. /\ L \in Level /\ L.size \in Nat /\ Span(L) \in 0 .. MAX_ORDERS - 1
      /\ Span(L) <= L.size /\ L.head # L.tail /\ Span(L) # 0 /\ L.head \in Slots
      /\ L.buffer \in [Slots -> Orders \cup {NoOrder}]
  BY RingParts DEF Exhausted
<1>2. CASE left > 0
  <2>1. /\ F.buffer = L.buffer /\ F.head = L.head /\ F.tail = L.tail /\ F.size = L.size
        /\ F.total = L.total - q
        /\ F = [buffer |-> F.buffer, head |-> F.head, tail |-> F.tail, size |-> F.size,
                total |-> F.total]
    BY <1>1, <1>2 DEF FillFront, Level
  <2>2. F \in Level /\ Span(F) = Span(L)
    BY <1>1, <2>1 DEF Level, Span
  <2> QED BY <1>1, <2>1, <2>2 DEF RingOK
<1>3. CASE ~(left > 0)
  <2>1. /\ F.buffer = [L.buffer EXCEPT ![L.head] = NoOrder] /\ F.head = Slot(L.head, 1)
        /\ F.tail = L.tail /\ F.size = L.size - 1 /\ F.total = L.total - q
        /\ F = [buffer |-> F.buffer, head |-> F.head, tail |-> F.tail, size |-> F.size,
                total |-> F.total]
    BY <1>1, <1>3 DEF FillFront, Level
  <2>2. Span(F) = Span(L) - 1 /\ Span(L) > 0
    <3>1. L.tail \in Slots
      BY <1>1 DEF Level
    <3> HIDE DEF F
    <3>2. Span(L) > 0 /\ 1 <= Distance(L.head, L.tail)
      BY <1>1, SpanIsDistance
    <3> QED BY <1>1, <2>1, <3>1, <3>2, HeadMoves, SpanIsDistance
  <2> HIDE DEF F
  <2>3. F \in Level
    <3>1. F.head \in Slots /\ F.size \in Nat
      BY <1>1, <2>1, <2>2, SlotType, RingSize
    <3> QED BY <1>1, <2>1, <3>1 DEF Level
  <2>4. RingOK(F)
    BY <1>1, <2>1, <2>2, <2>3 DEF RingOK
  <2>5. \A i \in Slots : F.buffer[i] \in {L.buffer[i], NoOrder}
    BY <1>1, <2>1
  <2> QED BY <2>4, <2>5 DEF F
<1> QED BY <1>2, <1>3

(* remove_order(): the size changes only if the order is at the head.      *)
LEMMA RemoveOrderProperties ==
    ASSUME NEW L, RingOK(L), NEW o \in Orders, NEW r \in Nat, NEW live
    PROVE  /\ RingOK(RemoveOrder(L, o, r, live))
           /\ \A i \in Slots : RemoveOrder(L, o, r, live).buffer[i] \in {L.buffer[i], NoOrder}
           /\ RemoveOrder(L, o, r, live).size # L.size => \E i \in Slots : L.buffer[i] = o
<1> DEFINE M == [L EXCEPT !.total = L.total - r]
<1>1. L \in Level /\ Span(L) <= L.size
  BY DEF RingOK
<1>2. /\ M.buffer = L.buffer /\ M.head = L.head /\ M.tail = L.tail /\ M.size = L.size
      /\ M \in Level
  BY <1>1 DEF Level
<1>3. RingOK(M)
  BY <1>1, <1>2 DEF RingOK, Span
<1>4. CASE ~Exhausted(L) /\ HeadOrder(L) = o
  <2>1. RemoveOrder(L, o, r, live) = Advance(M, live \ {o})
    BY <1>4 DEF RemoveOrder
  <2>2. L.head \in Slots /\ L.buffer[L.head] = o
    BY <1>1, <1>4 DEF Level, HeadOrder
  <2> HIDE DEF M
  <2>3. /\ RingOK(Advance(M, live \ {o}))
        /\ \A i \in Slots : Advance(M, live \ {o}).buffer[i] \in {M.buffer[i], NoOrder}
    BY <1>3, AdvanceProperties
  <2> QED BY <1>2, <2>1, <2>2, <2>3
<1>5. CASE ~(~Exhausted(L) /\ HeadOrder(L) = o)
  BY <1>2, <1>3, <1>5 DEF RemoveOrder
<1> QED BY <1>4, <1>5

-----------------------------------------------------------------------------
(* The vectors of levels.                                                  *)
SortedSeq(s, seq) == \A i, j \in 1 .. Len(seq) : i < j => Before(s, seq[i], seq[j])

(* ToSet in terms of positions.                                            *)
LEMMA ToSetMember ==
    ASSUME NEW seq \in Seq(Prices), NEW p
    PROVE  p \in ToSet(seq) <=> \E i \in 1 .. Len(seq) : seq[i] = p
BY DEF ToSet

(* The order in which a side is sorted is strict and total.                *)
LEMMA BeforeOrder ==
    ASSUME NEW s \in Side
    PROVE  \A p, q, r \in Prices :
              /\ ~Before(s, p, p)
              /\ Before(s, p, q) /\ Before(s, q, r) => Before(s, p, r)
              /\ p # q /\ ~Before(s, p, q) => Before(s, q, p)
<1>1. ASSUME NEW p \in Nat, NEW q \in Nat, NEW r \in Nat
      PROVE  /\ ~Before(s, p, p)
             /\ Before(s, p, q) /\ Before(s, q, r) => Before(s, p, r)
             /\ p # q /\ ~Before(s, p, q) => Before(s, q, p)
  BY DEF Before
<1> QED BY <1>1, PricesAssumption

(* A sorted side has no price twice.                                       *)
LEMMA SortedDistinct ==
    ASSUME NEW s \in Side, NEW seq \in Seq(Prices), SortedSeq(s, seq),
           NEW i \in 1 .. Len(seq), NEW j \in 1 .. Len(seq), i # j
    PROVE  seq[i] # seq[j]
<1>1. seq[i] \in Prices /\ seq[j] \in Prices
  OBVIOUS
<1>2. Before(s, seq[i], seq[j]) \/ Before(s, seq[j], seq[i])
  BY DEF SortedSeq
<1> QED BY <1>1, <1>2, BeforeOrder

(* lower_bound finds a place.                                              *)
LEMMA LowerBoundExists ==
    ASSUME NEW s, NEW seq \in Seq(Prices), NEW p
    PROVE  LET k == LowerBound(s, seq, p)
           IN  /\ k \in 1 .. Len(seq) + 1
               /\ \A j \in 1 .. k - 1 : Before(s, seq[j], p)
               /\ k = Len(seq) + 1 \/ ~Before(s, seq[k], p)
<1> DEFINE T == {k \in 1 .. Len(seq) + 1 : k = Len(seq) + 1 \/ ~Before(s, seq[k], p)}
<1>1. Len(seq) + 1 \in T /\ T \subseteq Nat
  OBVIOUS
<1>2. PICK k \in T : \A y \in T : k <= y
  BY <1>1, LeastNatural
<1>3. \A j \in 1 .. k - 1 : j \in 1 .. Len(seq) + 1 /\ j \notin T
  BY <1>1, <1>2
<1>4. \A j \in 1 .. k - 1 : Before(s, seq[j], p)
  BY <1>3
<1>5. \E k1 \in 1 .. Len(seq) + 1 :
         /\ \A j \in 1 .. k1 - 1 : Before(s, seq[j], p)
         /\ k1 = Len(seq) + 1 \/ ~Before(s, seq[k1], p)
  BY <1>2, <1>4
<1> QED BY <1>5 DEF LowerBound

(* insert_level keeps a side sorted and adds just the new price.           *)
LEMMA InsertLevelProperties ==
    ASSUME NEW s \in Side, NEW seq \in Seq(Prices), SortedSeq(s, seq),
           NEW p \in Prices, p \notin ToSet(seq)
    PROVE  /\ InsertLevel(s, seq, p) \in Seq(Prices)
           /\ ToSet(InsertLevel(s, seq, p)) = ToSet(seq) \cup {p}
           /\ SortedSeq(s, InsertLevel(s, seq, p))
<1> DEFINE k == LowerBound(s, seq, p)
           I == InsertLevel(s, seq, p)
<1>1. /\ k \in 1 .. Len(seq) + 1
      /\ \A j \in 1 .. k - 1 : Before(s, seq[j], p)
      /\ k = Len(seq) + 1 \/ ~Before(s, seq[k], p)
  BY LowerBoundExists
<1>2. Len(seq) \in Nat /\ \A i \in 1 .. Len(seq) : seq[i] \in Prices /\ seq[i] # p
  BY ToSetMember
<1>3. I = [i \in 1 .. Len(seq) + 1 |->
              IF i < k THEN seq[i] ELSE IF i = k THEN p ELSE seq[i - 1]]
  BY DEF InsertLevel
<1> HIDE DEF k, I
<1>4. I \in Seq(Prices) /\ Len(I) = Len(seq) + 1
  BY <1>1, <1>2, <1>3
<1>5. \A i \in 1 .. Len(seq) + 1 : I[i] = IF i < k THEN seq[i] ELSE IF i = k THEN p ELSE seq[i - 1]
  BY <1>3
<1>6. \A x : x \in ToSet(I) <=> x \in ToSet(seq) \cup {p}
  <2> \A x : x \in ToSet(seq) <=> \E i \in 1 .. Len(seq) : seq[i] = x
    BY ToSetMember
  <2> \A x : x \in ToSet(I) <=> \E i \in 1 .. Len(I) : I[i] = x
    BY <1>4, ToSetMember
  <2>1. ASSUME NEW i \in 1 .. Len(I) PROVE I[i] \in ToSet(seq) \cup {p}
    <3>1. CASE i < k
      <4>1. i \in 1 .. Len(seq) /\ I[i] = seq[i]
        BY <1>1, <1>2, <1>4, <1>5, <3>1
      <4> QED BY <4>1
    <3>2. CASE i = k
      BY <1>1, <1>2, <1>4, <1>5, <3>2
    <3>3. CASE k < i
      <4>1. i - 1 \in 1 .. Len(seq) /\ I[i] = seq[i - 1]
        BY <1>1, <1>2, <1>4, <1>5, <3>3
      <4> QED BY <4>1
    <3> QED BY <1>1, <1>2, <1>4, <3>1, <3>2, <3>3
  <2>2. ASSUME NEW i \in 1 .. Len(seq) PROVE \E j \in 1 .. Len(I) : I[j] = seq[i]
    <3>1. CASE i < k
      <4>1. i \in 1 .. Len(I) /\ I[i] = seq[i]
        BY <1>1, <1>2, <1>4, <1>5, <3>1
      <4> QED BY <4>1
    <3>2. CASE ~(i < k)
      <4>1. i + 1 \in 1 .. Len(I) /\ I[i + 1] = seq[i]
        BY <1>1, <1>2, <1>4, <1>5, <3>2
      <4> QED BY <4>1
    <3> QED BY <3>1, <3>2
  <2>3. k \in 1 .. Len(I) /\ I[k] = p
    BY <1>1, <1>2, <1>4, <1>5
  <2> QED BY <2>1, <2>2, <2>3
<1>7. ASSUME NEW j \in 1 .. Len(seq), j >= k PROVE Before(s, p, seq[j])
  <2>1. Before(s, p, seq[k]) /\ k \in 1 .. Len(seq)
    <3>1. k \in 1 .. Len(seq) /\ ~Before(s, seq[k], p)
      BY <1>1, <1>2, <1>7
    <3>2. seq[k] \in Prices /\ seq[k] # p
      BY <1>2, <3>1
    <3> QED BY <3>1, <3>2, BeforeOrder
  <2>2. j = k \/ Before(s, seq[k], seq[j])
    BY <1>1, <1>7, <2>1 DEF SortedSeq
  <2>3. seq[k] \in Prices /\ seq[j] \in Prices
    BY <1>2, <2>1
  <2> QED BY <2>1, <2>2, <2>3, BeforeOrder
<1>8. SortedSeq(s, I)
  <2> SUFFICES ASSUME NEW i \in 1 .. Len(I), NEW j \in 1 .. Len(I), i < j
               PROVE  Before(s, I[i], I[j])
    BY DEF SortedSeq
  <2>1. CASE j < k
    <3>1. /\ i \in 1 .. Len(seq) /\ j \in 1 .. Len(seq)
          /\ I[i] = seq[i] /\ I[j] = seq[j]
      BY <1>1, <1>2, <1>4, <1>5, <2>1
    <3> QED BY <3>1 DEF SortedSeq
  <2>2. CASE j = k
    <3>1. i \in 1 .. k - 1 /\ I[i] = seq[i] /\ I[j] = p
      BY <1>1, <1>2, <1>4, <1>5, <2>2
    <3> QED BY <1>1, <3>1
  <2>3. CASE i < k /\ k < j
    <3>1. i \in 1 .. Len(seq) /\ j - 1 \in 1 .. Len(seq) /\ i < j - 1
      BY <1>1, <1>2, <1>4, <2>3
    <3>2. I[i] = seq[i] /\ I[j] = seq[j - 1]
      BY <1>1, <1>2, <1>4, <1>5, <2>3
    <3> QED BY <3>1, <3>2 DEF SortedSeq
  <2>4. CASE i = k /\ k < j
    <3>1. j - 1 \in 1 .. Len(seq) /\ j - 1 >= k
      BY <1>1, <1>2, <1>4, <2>4
    <3>2. I[i] = p /\ I[j] = seq[j - 1]
      BY <1>1, <1>2, <1>4, <1>5, <2>4
    <3> QED BY <1>7, <3>1, <3>2
  <2>5. CASE k < i
    <3>1. i - 1 \in 1 .. Len(seq) /\ j - 1 \in 1 .. Len(seq) /\ i - 1 < j - 1
      BY <1>1, <1>2, <1>4, <2>5
    <3>2. I[i] = seq[i - 1] /\ I[j] = seq[j - 1]
      BY <1>1, <1>2, <1>4, <1>5, <2>5
    <3> QED BY <3>1, <3>2 DEF SortedSeq
  <2> QED BY <1>1, <1>2, <1>4, <2>1, <2>2, <2>3, <2>4, <2>5
<1> QED BY <1>4, <1>6, <1>8 DEF I

(* remove_level keeps a side sorted and removes just the price.            *)
LEMMA RemoveLevelProperties ==
    ASSUME NEW s \in Side, NEW seq \in Seq(Prices), SortedSeq(s, seq), NEW p
    PROVE  /\ RemoveLevel(seq, p) \in Seq(Prices)
           /\ ToSet(RemoveLevel(seq, p)) = ToSet(seq) \ {p}
           /\ SortedSeq(s, RemoveLevel(seq, p))
<1>1. CASE p \notin ToSet(seq)
  BY <1>1 DEF RemoveLevel
<1>2. CASE p \in ToSet(seq)
  <2> DEFINE k == CHOOSE k \in 1 .. Len(seq) : seq[k] = p
             R == RemoveLevel(seq, p)
  <2>1. k \in 1 .. Len(seq) /\ seq[k] = p
    BY <1>2, ToSetMember
  <2>2. R = [i \in 1 .. Len(seq) - 1 |-> IF i < k THEN seq[i] ELSE seq[i + 1]]
    BY <1>2 DEF RemoveLevel
  <2> HIDE DEF k, R
  <2>3. Len(seq) \in Nat /\ \A i \in 1 .. Len(seq) : seq[i] \in Prices
    OBVIOUS
  <2>4. R \in Seq(Prices) /\ Len(R) = Len(seq) - 1
    BY <2>1, <2>2, <2>3
  <2>5. \A i \in 1 .. Len(R) : R[i] = IF i < k THEN seq[i] ELSE seq[i + 1]
    BY <2>2, <2>4
  <2>6. \A i, j \in 1 .. Len(seq) : i # j => seq[i] # seq[j]
    BY SortedDistinct
  <2>7. \A x : x \in ToSet(R) <=> x \in ToSet(seq) \ {p}
    <3> \A x : x \in ToSet(seq) <=> \E i \in 1 .. Len(seq) : seq[i] = x
      BY ToSetMember
    <3> \A x : x \in ToSet(R) <=> \E i \in 1 .. Len(R) : R[i] = x
      BY <2>4, ToSetMember
    <3>1. ASSUME NEW i \in 1 .. Len(R) PROVE R[i] \in ToSet(seq) \ {p}
      <4>1. PICK j \in 1 .. Len(seq) : j # k /\ R[i] = seq[j]
        BY <2>1, <2>3, <2>4, <2>5
      <4> QED BY <2>1, <2>6, <4>1
    <3>2. ASSUME NEW i \in 1 .. Len(seq), i # k PROVE \E j \in 1 .. Len(R) : R[j] = seq[i]
      <4>1. CASE i < k
        BY <2>1, <2>3, <2>4, <2>5, <4>1
      <4>2. CASE ~(i < k)
        <5>1. i - 1 \in 1 .. Len(R) /\ R[i - 1] = seq[i]
          BY <2>1, <2>3, <2>4, <2>5, <3>2, <4>2
        <5> QED BY <5>1
      <4> QED BY <4>1, <4>2
    <3> QED BY <2>1, <3>1, <3>2
  <2>8. SortedSeq(s, R)
    <3> SUFFICES ASSUME NEW i \in 1 .. Len(R), NEW j \in 1 .. Len(R), i < j
                 PROVE  Before(s, R[i], R[j])
      BY DEF SortedSeq
    <3> DEFINE a == IF i < k THEN i ELSE i + 1
               b == IF j < k THEN j ELSE j + 1
    <3>1. R[i] = seq[a] /\ R[j] = seq[b] /\ a \in 1 .. Len(seq) /\ b \in 1 .. Len(seq) /\ a < b
      BY <2>1, <2>3, <2>4, <2>5
    <3> QED BY <3>1 DEF SortedSeq
  <2> QED BY <2>4, <2>7, <2>8 DEF R
<1> QED BY <1>1, <1>2

(* match drops the front level.                                            *)
LEMMA TailProperties ==
    ASSUME NEW s \in Side, NEW seq \in Seq(Prices), SortedSeq(s, seq), seq # << >>
    PROVE  /\ Tail(seq) \in Seq(Prices)
           /\ ToSet(Tail(seq)) = ToSet(seq) \ {seq[1]}
           /\ SortedSeq(s, Tail(seq))
           /\ seq[1] \in ToSet(seq)
<1>1. Len(seq) \in Nat /\ Len(seq) > 0 /\ \A i \in 1 .. Len(seq) : seq[i] \in Prices
  OBVIOUS
<1>2. /\ Tail(seq) \in Seq(Prices) /\ Len(Tail(seq)) = Len(seq) - 1
      /\ \A i \in 1 .. Len(seq) - 1 : Tail(seq)[i] = seq[i + 1]
  BY <1>1
<1>3. \A i \in 1 .. Len(seq) : i # 1 => seq[i] # seq[1]
  BY <1>1, SortedDistinct
<1>4. \A x : x \in ToSet(Tail(seq)) <=> x \in ToSet(seq) \ {seq[1]}
  <2> \A x : x \in ToSet(seq) <=> \E i \in 1 .. Len(seq) : seq[i] = x
    BY ToSetMember
  <2> \A x : x \in ToSet(Tail(seq)) <=> \E i \in 1 .. Len(Tail(seq)) : Tail(seq)[i] = x
    BY <1>2, ToSetMember
  <2>1. ASSUME NEW i \in 1 .. Len(Tail(seq)) PROVE Tail(seq)[i] \in ToSet(seq) \ {seq[1]}
    <3>1. i + 1 \in 1 .. Len(seq) /\ i + 1 # 1 /\ Tail(seq)[i] = seq[i + 1]
      BY <1>1, <1>2
    <3> QED BY <1>3, <3>1
  <2>2. ASSUME NEW i \in 1 .. Len(seq), i # 1
        PROVE  \E j \in 1 .. Len(Tail(seq)) : Tail(seq)[j] = seq[i]
    <3>1. i - 1 \in 1 .. Len(Tail(seq)) /\ Tail(seq)[i - 1] = seq[i]
      BY <1>1, <1>2, <2>2
    <3> QED BY <3>1
  <2> QED BY <1>1, <2>1, <2>2
<1>5. SortedSeq(s, Tail(seq))
  BY <1>1, <1>2 DEF SortedSeq
<1> QED BY <1>1, <1>2, <1>4, <1>5, ToSetMember

(* A vector that is not empty has a front.                                 *)
LEMMA FrontPrice ==
    ASSUME NEW seq \in Seq(Prices), seq # << >>
    PROVE  seq[1] \in Prices /\ seq[1] \in ToSet(seq)
<1>1. Len(seq) \in Nat /\ Len(seq) > 0 /\ \A i \in 1 .. Len(seq) : seq[i] \in Prices
  OBVIOUS
<1> QED BY <1>1, ToSetMember

(* The front of a sorted side is its best price.                           *)
LEMMA FrontIsBest ==
    ASSUME NEW s \in Side, NEW seq \in Seq(Prices), SortedSeq(s, seq), NEW p \in ToSet(seq)
    PROVE  seq # << >> /\ (p = seq[1] \/ Before(s, seq[1], p))
<1>1. PICK i \in 1 .. Len(seq) : seq[i] = p
  BY ToSetMember
<1>2. Len(seq) \in Nat /\ 1 \in 1 .. Len(seq)
  BY <1>1
<1> QED BY <1>1, <1>2 DEF SortedSeq

-----------------------------------------------------------------------------
(* The inductive invariant.  cancel_order finds a level by the price of an *)
(* order that may have left the book long ago, in an index that nobody     *)
(* cleaned, and removes it from the side of that order: InSync survives    *)
(* because no level is empty between calls (NonEmpty) and because the      *)
(* orders in a ring belong to the side that the ring is on (Contents).     *)
RingsOK == \A p \in DOMAIN level : RingOK(level[p])

(* Every slot of a ring holds nothing or an order that arrived, of the     *)
(* ring's own price and side.                                              *)
Contents ==
    \A p \in DOMAIN level : \A i \in Slots :
        LET o == level[p].buffer[i]
        IN  o # NoOrder => o <= arrived /\ ord[o].price = p /\ p \in ToSet(levels[ord[o].side])

(* A running match has an order with a price, and a level to work on.      *)
CallOK ==
    pc # "idle" =>
        /\ inc \in Orders /\ inc <= arrived
        /\ ord[inc].price \in Prices
        /\ pc \in {"fill", "leave"} => Opp # << >>

(* Only the level that a running match works on may be empty.              *)
NonEmpty ==
    \A p \in DOMAIN level :
        level[p].size = 0 => pc \in {"fill", "leave"} /\ p = Opp[1]

(* The inductive invariant of the book without its queues.                 *)
IInv == TypeOK /\ RingsOK /\ InSync /\ NotCrossed /\ Contents /\ CallOK /\ NonEmpty

(* The initial book is empty.                                              *)
LEMMA InitInv == Init => IInv
<1> SUFFICES ASSUME Init PROVE IInv
  OBVIOUS
<1>1. TypeOK
  BY PricesAssumption DEF Init, TypeOK, Order, BlankOrder, Status, Side, NoOrder
<1>2. DOMAIN level = {} /\ levels["BUY"] = << >> /\ levels["SELL"] = << >> /\ pc = "idle"
  BY DEF Init, Side
<1>3. ToSet(levels["BUY"]) = {} /\ ToSet(levels["SELL"]) = {}
  BY <1>2 DEF ToSet
<1>4. InSync
  BY <1>2, <1>3 DEF InSync, Sorted, Side
<1> QED BY <1>1, <1>2, <1>3, <1>4 DEF IInv, RingsOK, NotCrossed, Contents, CallOK, NonEmpty

(* The two sides are sorted, disjoint and, together, the levels there are. *)
LEMMA SidesOfBook ==
    ASSUME IInv
    PROVE  /\ \A s \in Side : /\ levels[s] \in Seq(Prices) /\ SortedSeq(s, levels[s])
                               /\ ToSet(levels[s]) \subseteq DOMAIN level
                               /\ Opposite(s) \in Side /\ Opposite(Opposite(s)) = s
                               /\ ToSet(levels[s]) \cap ToSet(levels[Opposite(s)]) = {}
                               /\ DOMAIN level = ToSet(levels[s]) \cup ToSet(levels[Opposite(s)])
<1>1. \A s \in Side : levels[s] \in Seq(Prices) /\ SortedSeq(s, levels[s])
  BY DEF IInv, TypeOK, InSync, Sorted, SortedSeq
<1>2. DOMAIN level = ToSet(levels["BUY"]) \cup ToSet(levels["SELL"]) /\ DOMAIN level \subseteq Prices
  BY DEF IInv, InSync, TypeOK
<1>3. ToSet(levels["BUY"]) \cap ToSet(levels["SELL"]) = {}
  <2> SUFFICES ASSUME NEW x \in ToSet(levels["BUY"]), x \in ToSet(levels["SELL"]) PROVE FALSE
    OBVIOUS
  <2>1. x \in Nat
    BY <1>2, PricesAssumption
  <2>2. x < x
    BY DEF IInv, NotCrossed
  <2> QED BY <2>1, <2>2
<1> QED BY <1>1, <1>2, <1>3 DEF Side, Opposite

(* update_best_prices leaves two prices.                                   *)
LEMMA BestPricesType ==
    ASSUME NEW lv, lv["BUY"] \in Seq(Prices), lv["SELL"] \in Seq(Prices)
    PROVE  BestPrices(lv) \in [Side -> Int]
<1>1. \A t \in {"BUY", "SELL"} : lv[t] # << >> => lv[t][1] \in Int
  <2>1. ASSUME NEW seq \in Seq(Prices), seq # << >> PROVE seq[1] \in Int
    <3>1. seq[1] \in Prices
      BY <2>1, FrontPrice
    <3>2. Prices \subseteq Int
      BY PricesAssumption
    <3> QED BY <3>1, <3>2
  <2>2. lv["BUY"] # << >> => lv["BUY"][1] \in Int
    BY <2>1
  <2>3. lv["SELL"] # << >> => lv["SELL"][1] \in Int
    BY <2>1
  <2> QED BY <2>2, <2>3
<1>2. (IF lv["BUY"] # << >> THEN lv["BUY"][1] ELSE 0) \in Int
  BY <1>1
<1>3. (IF lv["SELL"] # << >> THEN lv["SELL"][1] ELSE INT64_MAX) \in Int
  BY <1>1, PricesAssumption
<1> QED BY <1>2, <1>3 DEF BestPrices, Side

(* An order that crosses nothing rests on its own side only: the level     *)
(* that find_level returns without looking at sides is the right one.      *)
LEMMA RestOrderStep ==
    ASSUME IInv, NEW o \in Orders, NEW r \in Order, r.price \in Prices, r.remaining > 0,
           NonCrossing(r.side, r.price), RestOrder(o, r)
    PROVE  /\ DOMAIN level' \subseteq Prices /\ level' \in [DOMAIN level' -> Level]
           /\ levels' \in [Side -> Seq(Prices)] /\ index' \subseteq Orders
           /\ best' \in [Side -> Int] /\ depth' \in [Side -> Int]
           /\ RingsOK' /\ InSync' /\ NotCrossed'
           /\ \A s \in Side : ToSet(levels[s]) \subseteq ToSet(levels'[s])
           /\ r.price \in ToSet(levels'[r.side])
           /\ \A p \in DOMAIN level' : \A i \in Slots :
                 \/ level'[p].buffer[i] = NoOrder
                 \/ (p = r.price /\ level'[p].buffer[i] = o)
                 \/ (p \in DOMAIN level /\ level'[p].buffer[i] = level[p].buffer[i])
           /\ \A p \in DOMAIN level' :
                 p # r.price => p \in DOMAIN level /\ level'[p] = level[p]
           /\ r.price \in DOMAIN level' /\ level'[r.price].size # 0
<1> DEFINE p == r.price
           s == r.side
           L == IF p \in DOMAIN level THEN level[p] ELSE EmptyLevel
           P == PushBack(L, o, r.remaining)
<1>1. s \in Side /\ p \in Prices /\ r.remaining \in Nat
  BY DEF Order
<1>2. RingOK(EmptyLevel) /\ \A i \in Slots : EmptyLevel.buffer[i] = NoOrder
  <2>1. EmptyLevel \in Level
    BY RingSize DEF EmptyLevel, Level, Slots
  <2>2. Span(EmptyLevel) = 0 /\ EmptyLevel.size = 0
    BY RingSize DEF EmptyLevel, Span
  <2> QED BY <2>1, <2>2 DEF RingOK, EmptyLevel
<1>3. RingOK(L)
  BY <1>2 DEF IInv, RingsOK
<1>4. /\ RingOK(P) /\ P.size = L.size + 1 /\ L.size \in Nat
      /\ \A i \in Slots : P.buffer[i] \in {L.buffer[i], o}
  <2> HIDE DEF L
  <2> QED BY <1>1, <1>3, PushBackProperties, RingParts
<1>5. level' = Put(level, p, P)
  BY DEF RestOrder
<1>6. \A i \in Slots : \/ P.buffer[i] \in {NoOrder, o}
                        \/ (p \in DOMAIN level /\ P.buffer[i] = level[p].buffer[i])
  <2>1. CASE p \in DOMAIN level
    <3>1. L = level[p]
      BY <2>1
    <3> HIDE DEF L, P
    <3> QED BY <1>4, <2>1, <3>1
  <2>2. CASE p \notin DOMAIN level
    <3>1. L = EmptyLevel
      BY <2>2
    <3> HIDE DEF L, P
    <3>2. \A i \in Slots : L.buffer[i] = NoOrder
      BY <1>2, <3>1
    <3> QED BY <1>4, <3>2
  <2> QED BY <2>1, <2>2
<1> HIDE DEF P
<1>7. /\ DOMAIN level' = DOMAIN level \cup {p} /\ level'[p] = P
      /\ \A x \in DOMAIN level : x # p => level'[x] = level[x]
      /\ level' \in [DOMAIN level' -> Level]
  <2>1. P \in Level /\ level \in [DOMAIN level -> Level]
    BY <1>4 DEF RingOK, IInv, TypeOK
  <2> QED BY <1>5, <2>1 DEF Put
<1>8. RingsOK'
  BY <1>4, <1>7 DEF RingsOK, IInv
<1>9. p \notin ToSet(levels[Opposite(s)])
  <2>1. ASSUME p \in ToSet(levels[Opposite(s)]) PROVE FALSE
    BY <1>1, <2>1, BeforeOrder DEF NonCrossing
  <2> QED BY <2>1
<1>10. /\ levels' \in [Side -> Seq(Prices)]
       /\ levels'[Opposite(s)] = levels[Opposite(s)]
       /\ ToSet(levels'[s]) = ToSet(levels[s]) \cup {p}
       /\ SortedSeq(s, levels'[s])
  <2>1. levels \in [Side -> Seq(Prices)]
    BY DEF IInv, TypeOK
  <2>2. CASE p \in DOMAIN level
    <3>1. levels' = levels
      BY <2>2 DEF RestOrder
    <3>2. p \in ToSet(levels[s]) /\ SortedSeq(s, levels[s])
      BY <1>1, <1>9, <2>2, SidesOfBook
    <3> QED BY <2>1, <3>1, <3>2
  <2>3. CASE p \notin DOMAIN level
    <3>1. levels' = [levels EXCEPT ![s] = InsertLevel(s, levels[s], p)]
      BY <2>3 DEF RestOrder
    <3>2. p \notin ToSet(levels[s]) /\ SortedSeq(s, levels[s]) /\ levels[s] \in Seq(Prices)
      BY <1>1, <2>3, SidesOfBook
    <3>3. Opposite(s) # s /\ Opposite(s) \in Side
      BY <1>1 DEF Side, Opposite
    <3> QED BY <1>1, <2>1, <3>1, <3>2, <3>3, InsertLevelProperties
  <2> QED BY <2>2, <2>3
<1>11. InSync'
  <2>1. \A t \in Side : SortedSeq(t, levels'[t])
    BY <1>1, <1>10, SidesOfBook DEF Side, Opposite
  <2>2. DOMAIN level' = ToSet(levels'[s]) \cup ToSet(levels'[Opposite(s)])
    BY <1>1, <1>7, <1>10, SidesOfBook
  <2>3. DOMAIN level' = ToSet(levels'["BUY"]) \cup ToSet(levels'["SELL"])
    BY <1>1, <2>2 DEF Side, Opposite
  <2> QED BY <2>1, <2>3 DEF InSync, Sorted, SortedSeq
<1>12. NotCrossed'
  <2>1. CASE s = "BUY"
    BY <1>10, <2>1 DEF IInv, NotCrossed, NonCrossing, Before, Opposite
  <2>2. CASE s = "SELL"
    BY <1>10, <2>2 DEF IInv, NotCrossed, NonCrossing, Before, Opposite
  <2> QED BY <1>1, <2>1, <2>2 DEF Side
<1>13. best' \in [Side -> Int]
  <2>1. best' = BestPrices(levels')
    BY DEF RestOrder
  <2>2. levels'["BUY"] \in Seq(Prices) /\ levels'["SELL"] \in Seq(Prices)
    BY <1>10 DEF Side
  <2> QED BY <2>1, <2>2, BestPricesType
<1>14. depth' \in [Side -> Int] /\ index' \subseteq Orders
  BY <1>1 DEF RestOrder, IInv, TypeOK
<1>15. DOMAIN level' \subseteq Prices
  BY <1>1, <1>7 DEF IInv, TypeOK
<1>16. level'[p].size # 0
  BY <1>4, <1>7
<1>17. \A t \in Side : ToSet(levels[t]) \subseteq ToSet(levels'[t])
  BY <1>1, <1>10 DEF Side, Opposite
<1>18. \A x \in DOMAIN level' : \A i \in Slots :
                 \/ level'[x].buffer[i] = NoOrder
                 \/ (x = r.price /\ level'[x].buffer[i] = o)
                 \/ (x \in DOMAIN level /\ level'[x].buffer[i] = level[x].buffer[i])
  BY <1>6, <1>7
<1> QED BY <1>7, <1>8, <1>10, <1>11, <1>12, <1>13, <1>14, <1>15, <1>16, <1>17, <1>18

-----------------------------------------------------------------------------
(* The steps.                                                              *)

(* What a new order looks like.                                            *)
LEMMA NewOrderType ==
    ASSUME NEW s \in Side, NEW p \in Prices, NEW q \in Quantities
    PROVE  LET r == NewOrder(s, p, q)
           IN  /\ r \in Order /\ r.side = s /\ r.price = p /\ r.remaining = q
               /\ p \in Int /\ q \in Nat
<1>1. p \in Int /\ q \in Nat
  BY PricesAssumption, QuantitiesAssumption
<1>2. NewOrder(s, p, q) = [side |-> s, price |-> p, quantity |-> q, filled |-> 0,
                           remaining |-> q, status |-> "NEW"]
  BY DEF NewOrder, BlankOrder
<1> QED BY <1>1, <1>2 DEF Order, Status

(* What a slot of a ring holds.                                            *)
LEMMA SlotContents ==
    ASSUME IInv, NEW x \in DOMAIN level, NEW i \in Slots, level[x].buffer[i] # NoOrder
    PROVE  LET b == level[x].buffer[i]
           IN  /\ b \in Orders /\ b \in Nat /\ b <= arrived /\ arrived \in Nat
               /\ ord[b] \in Order /\ ord[b].side \in Side
               /\ ord[b].price = x /\ x \in ToSet(levels[ord[b].side])
<1>1. level[x] \in Level /\ ord \in [Orders -> Order] /\ arrived \in Nat
  BY DEF IInv, TypeOK
<1>2. level[x].buffer \in [Slots -> Orders \cup {NoOrder}]
  BY <1>1 DEF Level
<1>3. level[x].buffer[i] \in Orders
  BY <1>2
<1>4. level[x].buffer[i] \in Nat
  BY <1>3, OrdersAssumption
<1>5. ord[level[x].buffer[i]] \in Order /\ ord[level[x].buffer[i]].side \in Side
  BY <1>1, <1>3 DEF Order
<1> QED BY <1>1, <1>3, <1>4, <1>5 DEF IInv, Contents

(* add_order                                                               *)
LEMMA AddOrderStep ==
    ASSUME IInv, NEW o \in Orders, NEW s \in Side, NEW p \in Prices, NEW q \in Quantities,
           AddOrder(o, s, p, q)
    PROVE  IInv'
<1> DEFINE r == NewOrder(s, p, q)
<1>1. /\ r \in Order /\ r.side = s /\ r.price = p /\ r.remaining = q /\ q \in Nat /\ q > 0
      /\ o \in Nat /\ o > arrived /\ arrived \in Nat /\ p \in Int
  BY NewOrderType, OrdersAssumption DEF AddOrder, IInv, TypeOK
<1>2. NonCrossing(r.side, r.price) /\ RestOrder(o, r) /\ pc = "idle" /\ pc' = "idle"
  BY <1>1 DEF AddOrder, callVars
<1>3. ord' = [ord EXCEPT ![o] = r] /\ arrived' = o /\ sequence' = sequence + 1
  BY DEF AddOrder
<1>4. inc' = inc /\ before' = before
  BY DEF AddOrder, callVars
<1> HIDE DEF r
<1>5. /\ DOMAIN level' \subseteq Prices /\ level' \in [DOMAIN level' -> Level]
      /\ levels' \in [Side -> Seq(Prices)] /\ index' \subseteq Orders
      /\ best' \in [Side -> Int] /\ depth' \in [Side -> Int]
      /\ RingsOK' /\ InSync' /\ NotCrossed'
      /\ \A t \in Side : ToSet(levels[t]) \subseteq ToSet(levels'[t])
      /\ p \in ToSet(levels'[s])
      /\ \A x \in DOMAIN level' : \A i \in Slots :
            \/ level'[x].buffer[i] = NoOrder
            \/ (x = p /\ level'[x].buffer[i] = o)
            \/ (x \in DOMAIN level /\ level'[x].buffer[i] = level[x].buffer[i])
      /\ \A x \in DOMAIN level' : x # p => x \in DOMAIN level /\ level'[x] = level[x]
      /\ level'[p].size # 0
  BY <1>1, <1>2, RestOrderStep, ZenonT(60)
<1>6. TypeOK'
  BY <1>1, <1>2, <1>3, <1>4, <1>5 DEF IInv, TypeOK
<1>7. Contents'
  <2> SUFFICES ASSUME NEW x \in DOMAIN level', NEW i \in Slots, level'[x].buffer[i] # NoOrder
               PROVE  LET b == level'[x].buffer[i]
                      IN  b <= arrived' /\ ord'[b].price = x /\ x \in ToSet(levels'[ord'[b].side])
    BY DEF Contents
  <2>1. CASE x = p /\ level'[x].buffer[i] = o
    BY <1>1, <1>3, <1>5, <2>1 DEF IInv, TypeOK
  <2>2. CASE x \in DOMAIN level /\ level'[x].buffer[i] = level[x].buffer[i]
    <3> DEFINE b == level[x].buffer[i]
    <3>1. /\ b \in Orders /\ b \in Nat /\ b <= arrived /\ ord[b].price = x
          /\ x \in ToSet(levels[ord[b].side])
      <4>1. level[x].buffer[i] # NoOrder
        BY <2>2
      <4> QED BY <2>2, <4>1, SlotContents
    <3> HIDE DEF b
    <3>2. b # o /\ b <= o
      BY <1>1, <3>1
    <3>3. ord'[b] = ord[b] /\ ord[b].side \in Side
      BY <1>3, <3>1, <3>2 DEF IInv, TypeOK, Order
    <3> QED BY <1>3, <1>5, <2>2, <3>1, <3>2, <3>3 DEF b
  <2> QED BY <1>5, <2>1, <2>2
<1>8. CallOK' /\ NonEmpty'
  BY <1>2, <1>5 DEF CallOK, NonEmpty, IInv
<1> QED BY <1>5, <1>6, <1>7, <1>8 DEF IInv

(* match up to its loop                                                    *)
LEMMA MatchBeginStep ==
    ASSUME IInv, NEW o \in Orders, NEW s \in Side, NEW p \in Prices, NEW q \in Quantities,
           MatchBegin(o, s, p, q)
    PROVE  IInv'
<1> DEFINE r == NewOrder(s, p, q)
<1>1. /\ r \in Order /\ r.side = s /\ r.price = p
      /\ o \in Nat /\ o > arrived /\ arrived \in Nat
  BY NewOrderType, OrdersAssumption DEF MatchBegin, IInv, TypeOK
<1>2. /\ ord' = [ord EXCEPT ![o] = r] /\ arrived' = o /\ pc = "idle" /\ pc' \in {"idle", "match"}
      /\ inc' \in {NoOrder, o} /\ (pc' # "idle" => inc' = o)
      /\ UNCHANGED <<level, levels, index, best, depth, sequence, before>>
  BY DEF MatchBegin, bookVars
<1> HIDE DEF r
<1>3. TypeOK'
  BY <1>1, <1>2 DEF IInv, TypeOK
<1>4. RingsOK' /\ InSync' /\ NotCrossed'
  BY <1>2 DEF IInv, RingsOK, InSync, Sorted, NotCrossed
<1>5. Contents'
  <2> SUFFICES ASSUME NEW x \in DOMAIN level, NEW i \in Slots, level[x].buffer[i] # NoOrder
               PROVE  LET b == level[x].buffer[i]
                      IN  b <= o /\ ord'[b].price = x /\ x \in ToSet(levels[ord'[b].side])
    BY <1>2 DEF Contents
  <2> DEFINE b == level[x].buffer[i]
  <2>1. /\ b \in Orders /\ b \in Nat /\ b <= arrived
        /\ ord[b].price = x /\ x \in ToSet(levels[ord[b].side])
    BY SlotContents
  <2> HIDE DEF b
  <2>2. b # o /\ b <= o
    BY <1>1, <2>1
  <2>3. ord'[b] = ord[b]
    BY <1>2, <2>1, <2>2 DEF IInv, TypeOK
  <2> QED BY <2>1, <2>2, <2>3 DEF b
<1>6. CallOK'
  <2> SUFFICES ASSUME pc' # "idle"
               PROVE  inc' \in Orders /\ inc' <= arrived' /\ ord'[inc'].price \in Prices
    BY <1>2 DEF CallOK
  <2>1. inc' = o /\ ord'[o] = r
    BY <1>2 DEF IInv, TypeOK
  <2> QED BY <1>1, <1>2, <2>1
<1>7. NonEmpty'
  BY <1>2 DEF IInv, NonEmpty
<1> QED BY <1>3, <1>4, <1>5, <1>6, <1>7 DEF IInv

(* A step that changes one ring, and only clears slots of it.              *)
LEMMA RingUpdate ==
    ASSUME IInv, NEW p \in DOMAIN level, NEW M, RingOK(M),
           \A i \in Slots : M.buffer[i] \in {level[p].buffer[i], NoOrder},
           level' = [level EXCEPT ![p] = M], levels' = levels, arrived' = arrived,
           \A o \in Orders : ord'[o].price = ord[o].price /\ ord'[o].side = ord[o].side
    PROVE  /\ DOMAIN level' = DOMAIN level /\ level' \in [DOMAIN level' -> Level]
           /\ level'[p] = M /\ \A x \in DOMAIN level : x # p => level'[x] = level[x]
           /\ RingsOK' /\ InSync' /\ NotCrossed' /\ Contents'
<1>1. level \in [DOMAIN level -> Level] /\ M \in Level
  BY DEF IInv, TypeOK, RingOK
<1>2. /\ DOMAIN level' = DOMAIN level /\ level' \in [DOMAIN level' -> Level]
      /\ level'[p] = M /\ \A x \in DOMAIN level : x # p => level'[x] = level[x]
  BY <1>1
<1>3. RingsOK'
  BY <1>2 DEF RingsOK, IInv
<1>4. InSync' /\ NotCrossed'
  BY <1>2 DEF IInv, InSync, Sorted, NotCrossed
<1>5. Contents'
  <2> SUFFICES ASSUME NEW x \in DOMAIN level', NEW i \in Slots, level'[x].buffer[i] # NoOrder
               PROVE  LET b == level'[x].buffer[i]
                      IN  b <= arrived' /\ ord'[b].price = x /\ x \in ToSet(levels'[ord'[b].side])
    BY DEF Contents
  <2>1. x \in DOMAIN level /\ level'[x].buffer[i] = level[x].buffer[i]
    BY <1>2
  <2>2. level[x].buffer[i] # NoOrder
    BY <2>1
  <2> DEFINE b == level[x].buffer[i]
  <2>3. b \in Orders /\ b <= arrived /\ ord[b].price = x /\ x \in ToSet(levels[ord[b].side])
    BY <2>1, <2>2, SlotContents
  <2> HIDE DEF b
  <2>4. ord'[b].price = x /\ x \in ToSet(levels'[ord'[b].side]) /\ b <= arrived'
    BY <2>3
  <2> QED BY <2>1, <2>4 DEF b
<1> QED BY <1>2, <1>3, <1>4, <1>5

(* A step that deletes a level, and removes it from the side it is on.     *)
LEMMA LevelErased ==
    ASSUME IInv, NEW s \in Side, NEW p \in ToSet(levels[s]), NEW seq \in Seq(Prices),
           ToSet(seq) = ToSet(levels[s]) \ {p}, SortedSeq(s, seq),
           level' = Erase(level, p), levels' = [levels EXCEPT ![s] = seq], arrived' = arrived,
           \A o \in Orders : ord'[o].price = ord[o].price /\ ord'[o].side = ord[o].side
    PROVE  /\ DOMAIN level' = DOMAIN level \ {p} /\ level' \in [DOMAIN level' -> Level]
           /\ levels' \in [Side -> Seq(Prices)]
           /\ \A x \in DOMAIN level' : level'[x] = level[x]
           /\ RingsOK' /\ InSync' /\ NotCrossed' /\ Contents'
<1>1. level \in [DOMAIN level -> Level] /\ levels \in [Side -> Seq(Prices)]
  BY DEF IInv, TypeOK
<1>2. /\ DOMAIN level' = DOMAIN level \ {p} /\ level' \in [DOMAIN level' -> Level]
      /\ \A x \in DOMAIN level' : level'[x] = level[x]
  BY <1>1 DEF Erase
<1>3. RingsOK'
  BY <1>2 DEF RingsOK, IInv
<1>4. Opposite(s) # s /\ Opposite(s) \in Side
  BY DEF Side, Opposite
<1>5. /\ levels' \in [Side -> Seq(Prices)] /\ levels'[s] = seq
      /\ levels'[Opposite(s)] = levels[Opposite(s)]
  BY <1>1, <1>4
<1>6. InSync'
  <2>1. \A t \in Side : SortedSeq(t, levels'[t])
    BY <1>5, SidesOfBook DEF Side, Opposite
  <2>2. DOMAIN level' = ToSet(levels'[s]) \cup ToSet(levels'[Opposite(s)])
    <3>1. p \notin ToSet(levels[Opposite(s)])
      BY SidesOfBook
    <3>2. DOMAIN level = ToSet(levels[s]) \cup ToSet(levels[Opposite(s)])
      BY SidesOfBook
    <3> QED BY <1>2, <1>5, <3>1, <3>2
  <2>3. DOMAIN level' = ToSet(levels'["BUY"]) \cup ToSet(levels'["SELL"])
    BY <2>2 DEF Side, Opposite
  <2> QED BY <2>1, <2>3 DEF InSync, Sorted, SortedSeq
<1>7. \A t \in Side : ToSet(levels'[t]) = ToSet(levels[t]) \ {p}
  <2>1. p \notin ToSet(levels[Opposite(s)])
    BY SidesOfBook
  <2> QED BY <1>5, <2>1 DEF Side, Opposite
<1>8. NotCrossed'
  BY <1>7 DEF IInv, NotCrossed, Side
<1>9. Contents'
  <2> SUFFICES ASSUME NEW x \in DOMAIN level', NEW i \in Slots, level'[x].buffer[i] # NoOrder
               PROVE  LET b == level'[x].buffer[i]
                      IN  b <= arrived' /\ ord'[b].price = x /\ x \in ToSet(levels'[ord'[b].side])
    BY DEF Contents
  <2>1. x \in DOMAIN level /\ x # p /\ level'[x].buffer[i] = level[x].buffer[i]
    BY <1>2
  <2>2. level[x].buffer[i] # NoOrder
    BY <2>1
  <2> DEFINE b == level[x].buffer[i]
  <2>3. /\ b \in Orders /\ b <= arrived /\ ord[b].price = x /\ x \in ToSet(levels[ord[b].side])
        /\ ord[b].side \in Side
    BY <2>1, <2>2, SlotContents
  <2> HIDE DEF b
  <2>4. ord'[b].price = x /\ x \in ToSet(levels'[ord'[b].side]) /\ b <= arrived'
    BY <1>7, <2>1, <2>3
  <2> QED BY <2>1, <2>4 DEF b
<1> QED BY <1>2, <1>3, <1>5, <1>6, <1>8, <1>9

(* The level a running match works on.                                     *)
LEMMA MatchedLevel ==
    ASSUME IInv, pc # "idle"
    PROVE  /\ inc \in Orders /\ inc <= arrived /\ ord[inc] \in Order /\ ord[inc].side \in Side
           /\ ord[inc].price \in Prices /\ Opposite(ord[inc].side) \in Side
           /\ Opp \in Seq(Prices) /\ SortedSeq(Opposite(ord[inc].side), Opp)
           /\ Opp # << >> => Opp[1] \in DOMAIN level /\ Opp[1] \in ToSet(Opp) /\ Opp[1] \in Prices
<1>1. inc \in Orders /\ inc <= arrived /\ ord[inc].price \in Prices
  BY DEF IInv, CallOK
<1>2. ord[inc] \in Order /\ ord[inc].side \in Side
  BY <1>1 DEF IInv, TypeOK, Order
<1>3. /\ Opposite(ord[inc].side) \in Side /\ Opp \in Seq(Prices)
      /\ SortedSeq(Opposite(ord[inc].side), Opp) /\ ToSet(Opp) \subseteq DOMAIN level
  BY <1>2, SidesOfBook DEF Opp, Opposite, Side
<1>4. Opp # << >> => Opp[1] \in ToSet(Opp) /\ Opp[1] \in Prices
  BY <1>3, FrontPrice
<1> QED BY <1>1, <1>2, <1>3, <1>4

(* The steps of match.                                                     *)
LEMMA LevelTopStep ==
    ASSUME IInv, LevelTop PROVE IInv'
<1>1. /\ UNCHANGED <<ord, arrived, level, levels, index, best, depth, sequence, inc>>
      /\ pc = "match" /\ pc' = "fill" /\ Opp # << >> /\ before' = level[Opp[1]].total
  BY DEF LevelTop, CanTrade, bookVars
<1>2. Opp' = Opp
  BY <1>1 DEF Opp
<1>3. level[Opp[1]] \in Level
  BY <1>1, MatchedLevel DEF IInv, TypeOK
<1>4. before' \in Int
  BY <1>1, <1>3 DEF Level
<1>5. TypeOK'
  BY <1>1, <1>4 DEF IInv, TypeOK
<1>6. RingsOK' /\ InSync' /\ NotCrossed' /\ Contents'
  BY <1>1 DEF IInv, RingsOK, InSync, Sorted, NotCrossed, Contents
<1>7. CallOK' /\ NonEmpty'
  BY <1>1, <1>2 DEF IInv, CallOK, NonEmpty
<1> QED BY <1>5, <1>6, <1>7 DEF IInv

(* match_order finds nothing to fill.                                      *)
LEMMA LevelDryStep ==
    ASSUME IInv, LevelDry PROVE IInv'
<1> DEFINE p == Opp[1]
           L == Advance(level[p], Live)
<1>1. /\ UNCHANGED <<ord, arrived, levels, index, best, depth, sequence, inc, before>>
      /\ pc = "fill" /\ pc' = "leave" /\ level' = [level EXCEPT ![p] = L]
  BY DEF LevelDry
<1>2. Opp' = Opp /\ Opp # << >> /\ p \in DOMAIN level
  BY <1>1, MatchedLevel DEF Opp, IInv, CallOK
<1>3. RingOK(L) /\ \A i \in Slots : L.buffer[i] \in {level[p].buffer[i], NoOrder}
  BY <1>2, AdvanceProperties DEF IInv, RingsOK
<1> HIDE DEF L
<1>4. /\ DOMAIN level' = DOMAIN level /\ level' \in [DOMAIN level' -> Level]
      /\ \A x \in DOMAIN level : x # p => level'[x] = level[x]
      /\ RingsOK' /\ InSync' /\ NotCrossed' /\ Contents'
  BY <1>1, <1>2, <1>3, RingUpdate
<1>5. TypeOK'
  BY <1>1, <1>4 DEF IInv, TypeOK
<1>6. CallOK' /\ NonEmpty'
  BY <1>1, <1>2, <1>4 DEF IInv, CallOK, NonEmpty
<1> QED BY <1>4, <1>5, <1>6 DEF IInv

(* A fill changes the quantities of an order and nothing else.             *)
LEMMA ExecutedType ==
    ASSUME NEW r \in Order, NEW q \in Nat, r.remaining - q \in Nat
    PROVE  LET x == Executed(r, q)
           IN  x \in Order /\ x.price = r.price /\ x.side = r.side
<1> DEFINE a == [r EXCEPT !.remaining = r.remaining - q]
<1>1. a \in Order /\ a.price = r.price /\ a.side = r.side /\ a.filled = r.filled
  BY DEF Order
<1>2. r.filled + q \in Nat
  BY DEF Order
<1>3. Executed(r, q) = [a EXCEPT !.filled = r.filled + q]
  BY DEF Executed
<1> HIDE DEF a
<1> QED BY <1>1, <1>2, <1>3 DEF Order

(* The maker at the head is on the other side, so it is not the taker.     *)
LEMMA FillStepStep ==
    ASSUME IInv, FillStep PROVE IInv'
<1> DEFINE p == Opp[1]
           L == Advance(level[p], Live)
           m == HeadOrder(L)
           q == FillQuantity(inc, m)
           F == FillFront(L, q, ord[m].remaining - q)
<1>1. /\ UNCHANGED <<arrived, levels, index, best, depth, sequence, inc, before>>
      /\ pc = "fill" /\ pc' \in {"leave", "fill"} /\ level' = [level EXCEPT ![p] = F]
      /\ ~Exhausted(L)
      /\ ord' = [ord EXCEPT ![m] = Executed(@, q), ![inc] = Executed(@, q)]
  BY DEF FillStep
<1>2. Opp # << >> /\ p \in DOMAIN level /\ inc \in Orders /\ ord[inc] \in Order
  BY <1>1, MatchedLevel DEF IInv, CallOK
<1>3. /\ RingOK(L) /\ \A i \in Slots : L.buffer[i] \in {level[p].buffer[i], NoOrder}
      /\ m \in Live /\ \E i \in Slots : m = level[p].buffer[i]
  BY <1>1, <1>2, AdvanceProperties DEF IInv, RingsOK
<1>4. m \in Orders /\ ord[m] \in Order
  BY <1>3 DEF Live, IInv, TypeOK
<1>5. m # inc
  <2>1. PICK i \in Slots : m = level[p].buffer[i]
    BY <1>3
  <2>2. level[p].buffer[i] # NoOrder
    BY <1>4, <2>1, OrdersAssumption
  <2>3. p \in ToSet(levels[ord[m].side])
    BY <1>2, <2>1, <2>2, SlotContents
  <2>4. p \in ToSet(levels[Opposite(ord[inc].side)]) /\ ord[inc].side \in Side
    BY <1>1, <1>2, MatchedLevel DEF Opp
  <2>5. p \notin ToSet(levels[ord[inc].side])
    BY <2>4, SidesOfBook
  <2> QED BY <2>3, <2>5
<1>6. q \in Nat /\ ord[m].remaining - q \in Nat /\ ord[inc].remaining - q \in Nat
  <2>1. ord[m].remaining \in Nat /\ ord[inc].remaining \in Nat
    BY <1>2, <1>4 DEF Order
  <2> QED BY <2>1 DEF FillQuantity
<1>7. RingOK(F) /\ \A i \in Slots : F.buffer[i] \in {level[p].buffer[i], NoOrder}
  <2> HIDE DEF L, q, m
  <2>1. RingOK(F) /\ \A i \in Slots : F.buffer[i] \in {L.buffer[i], NoOrder}
    BY <1>1, <1>3, <1>6, FillFrontProperties
  <2> HIDE DEF F
  <2> QED BY <1>3, <2>1
<1> HIDE DEF L, q, m, F
<1>8. /\ ord' \in [Orders -> Order]
      /\ \A o \in Orders : ord'[o].price = ord[o].price /\ ord'[o].side = ord[o].side
  <2>1. ord \in [Orders -> Order]
    BY DEF IInv, TypeOK
  <2>2. \A o \in Orders : o # m /\ o # inc => ord'[o] = ord[o]
    BY <1>1, <2>1
  <2>3. ord'[m] = Executed(ord[m], q)
    BY <1>1, <1>2, <1>4, <1>5, <2>1
  <2>4. ord'[inc] = Executed(ord[inc], q)
    BY <1>1, <1>2, <1>4, <1>5, <2>1
  <2>5. ord'[m] \in Order /\ ord'[m].price = ord[m].price /\ ord'[m].side = ord[m].side
    BY <1>4, <1>6, <2>3, ExecutedType
  <2>6. ord'[inc] \in Order /\ ord'[inc].price = ord[inc].price /\ ord'[inc].side = ord[inc].side
    BY <1>2, <1>6, <2>4, ExecutedType
  <2>7. \A o \in Orders : ord'[o] \in Order
    BY <2>1, <2>2, <2>5, <2>6
  <2>8. ord' = [o \in Orders |-> ord'[o]]
    BY <1>1, <2>1
  <2> QED BY <2>2, <2>5, <2>6, <2>7, <2>8
<1>9. Opp' = Opp /\ ord'[inc'].price \in Prices
  BY <1>1, <1>2, <1>8, MatchedLevel DEF Opp
<1>10. /\ DOMAIN level' = DOMAIN level /\ level' \in [DOMAIN level' -> Level]
       /\ \A x \in DOMAIN level : x # p => level'[x] = level[x]
       /\ RingsOK' /\ InSync' /\ NotCrossed' /\ Contents'
  BY <1>1, <1>2, <1>7, <1>8, RingUpdate
<1>11. TypeOK'
  BY <1>1, <1>8, <1>10 DEF IInv, TypeOK
<1>12. CallOK' /\ NonEmpty'
  BY <1>1, <1>2, <1>9, <1>10 DEF IInv, CallOK, NonEmpty
<1> QED BY <1>10, <1>11, <1>12 DEF IInv

(* Back in match: the level that is dropped is the front of its side.      *)
LEMMA LevelDoneStep ==
    ASSUME IInv, LevelDone PROVE IInv'
<1> DEFINE s == Opposite(ord[inc].side)
           p == Opp[1]
<1>1. /\ UNCHANGED <<ord, arrived, index, best, sequence, inc, before>>
      /\ pc = "leave" /\ pc' = "match"
      /\ depth' = [depth EXCEPT ![s] = depth[s] - (before - level[p].total)]
  BY DEF LevelDone
<1>2. /\ s \in Side /\ Opp = levels[s] /\ Opp # << >> /\ Opp \in Seq(Prices)
      /\ SortedSeq(s, Opp) /\ p \in DOMAIN level /\ p \in ToSet(levels[s])
  BY <1>1, MatchedLevel DEF Opp, IInv, CallOK
<1>3. depth' \in [Side -> Int]
  <2>1. level[p].total \in Int /\ before \in Int
    BY <1>2 DEF IInv, TypeOK, Level
  <2>2. depth \in [Side -> Int]
    BY DEF IInv, TypeOK
  <2>3. depth[s] - (before - level[p].total) \in Int
    BY <1>2, <2>1, <2>2
  <2> QED BY <1>1, <2>2, <2>3
<1>4. CallOK'
  BY <1>1 DEF IInv, CallOK
<1>5. CASE empty(level[p])
  <2>1. level' = Erase(level, p) /\ levels' = [levels EXCEPT ![s] = Tail(levels[s])]
    BY <1>5 DEF LevelDone
  <2>2. /\ Tail(levels[s]) \in Seq(Prices) /\ SortedSeq(s, Tail(levels[s]))
        /\ ToSet(Tail(levels[s])) = ToSet(levels[s]) \ {p}
    BY <1>2, TailProperties
  <2>3. /\ DOMAIN level' = DOMAIN level \ {p} /\ level' \in [DOMAIN level' -> Level]
        /\ levels' \in [Side -> Seq(Prices)]
        /\ \A x \in DOMAIN level' : level'[x] = level[x]
        /\ RingsOK' /\ InSync' /\ NotCrossed' /\ Contents'
    BY <1>1, <1>2, <2>1, <2>2, LevelErased
  <2>4. TypeOK'
    BY <1>1, <1>3, <2>3 DEF IInv, TypeOK
  <2>5. NonEmpty'
    BY <2>3 DEF IInv, NonEmpty
  <2> QED BY <1>4, <2>3, <2>4, <2>5 DEF IInv
<1>6. CASE ~empty(level[p])
  <2>1. level' = level /\ levels' = levels
    BY <1>6 DEF LevelDone
  <2>2. TypeOK'
    BY <1>1, <1>3, <2>1 DEF IInv, TypeOK
  <2>3. RingsOK' /\ InSync' /\ NotCrossed' /\ Contents'
    BY <1>1, <2>1 DEF IInv, RingsOK, InSync, Sorted, NotCrossed, Contents
  <2>4. NonEmpty'
    BY <1>6, <2>1 DEF IInv, NonEmpty, empty
  <2> QED BY <1>4, <2>2, <2>3, <2>4 DEF IInv
<1> QED BY <1>5, <1>6

(* match leaves its loop with an order to rest only when the best price of *)
(* the other side, and so every price of it, is out of reach.              *)
LEMMA MatchEndStep ==
    ASSUME IInv, MatchEnd PROVE IInv'
<1> DEFINE r == ord[inc]
           t == Opposite(r.side)
<1>1. /\ UNCHANGED <<ord, arrived>> /\ sequence' = sequence + 1
      /\ pc = "match" /\ pc' = "idle" /\ inc' = NoOrder /\ before' = 0 /\ ~CanTrade
  BY DEF MatchEnd
<1>2. /\ inc \in Orders /\ inc <= arrived /\ r \in Order /\ r.price \in Prices /\ r.side \in Side
      /\ t \in Side /\ Opp = levels[t] /\ Opp \in Seq(Prices) /\ SortedSeq(t, Opp)
  BY <1>1, MatchedLevel DEF Opp
<1>3. \A x \in DOMAIN level : level[x].size # 0
  BY <1>1 DEF IInv, NonEmpty
<1>4. CASE r.remaining > 0
  <2>1. RestOrder(inc, r)
    BY <1>4 DEF MatchEnd
  <2>2. NonCrossing(r.side, r.price)
    <3> SUFFICES ASSUME NEW x \in ToSet(levels[t]) PROVE Before(r.side, x, r.price)
      BY DEF NonCrossing
    <3>1. Opp # << >> /\ (x = Opp[1] \/ Before(t, Opp[1], x))
      BY <1>2, FrontIsBest
    <3>2. Before(r.side, Opp[1], r.price)
      BY <1>1, <1>4, <3>1 DEF CanTrade
    <3>3. x \in Prices /\ Opp[1] \in Prices
      BY <1>2, <3>1, FrontPrice, SidesOfBook DEF IInv, TypeOK
    <3>4. Before(t, Opp[1], x) => Before(r.side, x, Opp[1])
      BY <1>2 DEF Before, Opposite, Side
    <3> QED BY <1>2, <3>1, <3>2, <3>3, <3>4, BeforeOrder
  <2> HIDE DEF r
  <2>3. /\ DOMAIN level' \subseteq Prices /\ level' \in [DOMAIN level' -> Level]
        /\ levels' \in [Side -> Seq(Prices)] /\ index' \subseteq Orders
        /\ best' \in [Side -> Int] /\ depth' \in [Side -> Int]
        /\ RingsOK' /\ InSync' /\ NotCrossed'
        /\ \A u \in Side : ToSet(levels[u]) \subseteq ToSet(levels'[u])
        /\ r.price \in ToSet(levels'[r.side])
        /\ \A x \in DOMAIN level' : \A i \in Slots :
              \/ level'[x].buffer[i] = NoOrder
              \/ (x = r.price /\ level'[x].buffer[i] = inc)
              \/ (x \in DOMAIN level /\ level'[x].buffer[i] = level[x].buffer[i])
        /\ \A x \in DOMAIN level' : x # r.price => x \in DOMAIN level /\ level'[x] = level[x]
        /\ level'[r.price].size # 0
    BY <1>2, <1>4, <2>1, <2>2, RestOrderStep
  <2>4. TypeOK'
    BY <1>1, <2>3 DEF IInv, TypeOK, NoOrder
  <2>5. Contents'
    <3> SUFFICES ASSUME NEW x \in DOMAIN level', NEW i \in Slots, level'[x].buffer[i] # NoOrder
                 PROVE  LET b == level'[x].buffer[i]
                        IN  b <= arrived /\ ord[b].price = x /\ x \in ToSet(levels'[ord[b].side])
      BY <1>1 DEF Contents
    <3>1. CASE x = r.price /\ level'[x].buffer[i] = inc
      BY <1>2, <2>3, <3>1 DEF r
    <3>2. CASE x \in DOMAIN level /\ level'[x].buffer[i] = level[x].buffer[i]
      <4>1. level[x].buffer[i] # NoOrder
        BY <3>2
      <4> DEFINE b == level[x].buffer[i]
      <4>2. /\ b <= arrived /\ ord[b].price = x /\ x \in ToSet(levels[ord[b].side])
            /\ ord[b].side \in Side
        BY <3>2, <4>1, SlotContents
      <4> HIDE DEF b
      <4>3. x \in ToSet(levels'[ord[b].side])
        BY <2>3, <4>2
      <4> QED BY <3>2, <4>2, <4>3 DEF b
    <3> QED BY <2>3, <3>1, <3>2
  <2>6. CallOK' /\ NonEmpty'
    BY <1>1, <1>3, <2>3 DEF CallOK, NonEmpty
  <2> QED BY <2>3, <2>4, <2>5, <2>6 DEF IInv
<1>5. CASE ~(r.remaining > 0)
  <2>1. UNCHANGED <<level, levels, index, depth>> /\ best' = BestPrices(levels)
    BY <1>5 DEF MatchEnd
  <2>2. best' \in [Side -> Int]
    BY <2>1, BestPricesType DEF IInv, TypeOK, Side
  <2>3. TypeOK'
    BY <1>1, <2>1, <2>2 DEF IInv, TypeOK, NoOrder
  <2>4. RingsOK' /\ InSync' /\ NotCrossed' /\ Contents'
    BY <1>1, <2>1 DEF IInv, RingsOK, InSync, Sorted, NotCrossed, Contents
  <2>5. CallOK' /\ NonEmpty'
    BY <1>1, <1>3, <2>1 DEF CallOK, NonEmpty
  <2> QED BY <2>3, <2>4, <2>5 DEF IInv
<1> QED BY <1>4, <1>5

(* cancel_order: the level it deletes is on the side of the order.         *)
LEMMA CancelOrderStep ==
    ASSUME IInv, NEW o \in Orders, CancelOrder(o) PROVE IInv'
<1> DEFINE p == ord[o].price
           s == ord[o].side
           L == IF is_active(o) THEN RemoveOrder(level[p], o, ord[o].remaining, Live) ELSE level[p]
           lv == IF empty(L) THEN [levels EXCEPT ![s] = RemoveLevel(levels[s], p)] ELSE levels
<1>1. /\ pc = "idle" /\ pc' = "idle" /\ inc' = inc /\ before' = before /\ arrived' = arrived
      /\ index' = index \ {o}
  BY DEF CancelOrder, callVars
<1>2. s \in Side /\ ord[o].remaining \in Nat /\ ord[o] \in Order /\ ord \in [Orders -> Order]
  BY DEF IInv, TypeOK, Order
<1>3. CASE p \notin DOMAIN level
  <2>1. UNCHANGED <<ord, level, levels, best, depth, sequence>>
    BY <1>3 DEF CancelOrder
  <2>2. TypeOK'
    BY <1>1, <2>1 DEF IInv, TypeOK
  <2>3. RingsOK' /\ InSync' /\ NotCrossed' /\ Contents'
    BY <1>1, <2>1 DEF IInv, RingsOK, InSync, Sorted, NotCrossed, Contents
  <2>4. CallOK' /\ NonEmpty'
    BY <1>1, <2>1 DEF IInv, CallOK, NonEmpty
  <2> QED BY <2>2, <2>3, <2>4 DEF IInv
<1>4. CASE p \in DOMAIN level
  <2>1. /\ ord' = [ord EXCEPT ![o].status = "CANCELLED"]
        /\ depth' = [depth EXCEPT ![s] = depth[s] - ord[o].remaining]
        /\ level' = IF empty(L) THEN Erase(level, p) ELSE [level EXCEPT ![p] = L]
        /\ levels' = lv /\ best' = BestPrices(lv) /\ sequence' = sequence + 1
    BY <1>4 DEF CancelOrder
  <2>2. RingOK(level[p]) /\ level[p].size # 0
    BY <1>1, <1>4 DEF IInv, RingsOK, NonEmpty
  <2>3. /\ RingOK(L) /\ \A i \in Slots : L.buffer[i] \in {level[p].buffer[i], NoOrder}
        /\ L.size # level[p].size => \E i \in Slots : level[p].buffer[i] = o
    <3>1. CASE is_active(o)
      <4>1. L = RemoveOrder(level[p], o, ord[o].remaining, Live)
        BY <3>1
      <4> HIDE DEF L
      <4> QED BY <1>2, <2>2, <4>1, RemoveOrderProperties
    <3>2. CASE ~is_active(o)
      <4>1. L = level[p]
        BY <3>2
      <4> HIDE DEF L
      <4> QED BY <2>2, <4>1
    <3> QED BY <3>1, <3>2
  <2>4. /\ ord' \in [Orders -> Order]
        /\ \A x \in Orders : ord'[x].price = ord[x].price /\ ord'[x].side = ord[x].side
    <3> DEFINE c == [ord[o] EXCEPT !.status = "CANCELLED"]
    <3>1. c \in Order /\ c.price = ord[o].price /\ c.side = ord[o].side
      BY <1>2 DEF Order, Status
    <3>2. ord' = [ord EXCEPT ![o] = c]
      BY <2>1
    <3> HIDE DEF c
    <3> QED BY <1>2, <3>1, <3>2
  <2>5. depth' \in [Side -> Int]
    BY <1>2, <2>1 DEF IInv, TypeOK
  <2>0. sequence' \in Nat /\ index' \subseteq Orders /\ arrived' \in Nat /\ pc' = "idle"
        /\ inc' \in Orders \cup {NoOrder} /\ before' \in Int
    BY <1>1, <2>1 DEF IInv, TypeOK
  <2> HIDE DEF L
  <2>6. CASE empty(L)
    <3>1. level' = Erase(level, p) /\ levels' = [levels EXCEPT ![s] = RemoveLevel(levels[s], p)]
      BY <2>1, <2>6
    <3>2. PICK i \in Slots : level[p].buffer[i] = o
      BY <2>2, <2>3, <2>6 DEF empty
    <3>3. p \in ToSet(levels[s])
      <4>1. level[p].buffer[i] # NoOrder
        BY <3>2, OrdersAssumption
      <4> QED BY <1>4, <3>2, <4>1, SlotContents
    <3>4. /\ RemoveLevel(levels[s], p) \in Seq(Prices)
          /\ ToSet(RemoveLevel(levels[s], p)) = ToSet(levels[s]) \ {p}
          /\ SortedSeq(s, RemoveLevel(levels[s], p))
      BY <1>2, SidesOfBook, RemoveLevelProperties
    <3>5. /\ DOMAIN level' = DOMAIN level \ {p} /\ level' \in [DOMAIN level' -> Level]
          /\ levels' \in [Side -> Seq(Prices)]
          /\ \A x \in DOMAIN level' : level'[x] = level[x]
          /\ RingsOK' /\ InSync' /\ NotCrossed' /\ Contents'
      BY <1>1, <1>2, <2>4, <3>1, <3>3, <3>4, LevelErased
    <3>6. best' \in [Side -> Int]
      <4>1. best' = BestPrices(levels')
        BY <2>1
      <4> QED BY <3>5, <4>1, BestPricesType DEF Side
    <3>7. TypeOK'
      BY <2>0, <2>4, <2>5, <3>5, <3>6 DEF IInv, TypeOK
    <3>8. CallOK' /\ NonEmpty'
      BY <1>1, <3>5 DEF IInv, CallOK, NonEmpty
    <3> QED BY <3>5, <3>7, <3>8 DEF IInv
  <2>7. CASE ~empty(L)
    <3>1. level' = [level EXCEPT ![p] = L] /\ levels' = levels /\ best' = BestPrices(levels)
      BY <2>1, <2>7
    <3>2. /\ DOMAIN level' = DOMAIN level /\ level' \in [DOMAIN level' -> Level]
          /\ level'[p] = L /\ \A x \in DOMAIN level : x # p => level'[x] = level[x]
          /\ RingsOK' /\ InSync' /\ NotCrossed' /\ Contents'
      BY <1>1, <1>4, <2>3, <2>4, <3>1, RingUpdate
    <3>3. best' \in [Side -> Int]
      BY <3>1, BestPricesType DEF IInv, TypeOK, Side
    <3>4. TypeOK'
      BY <2>0, <2>4, <2>5, <3>1, <3>2, <3>3 DEF IInv, TypeOK
    <3>5. CallOK' /\ NonEmpty'
      BY <1>1, <2>7, <3>2 DEF IInv, CallOK, NonEmpty, empty
    <3> QED BY <3>2, <3>4, <3>5 DEF IInv
  <2> QED BY <2>6, <2>7
<1> QED BY <1>3, <1>4

(* set_market_price touches the two best prices only.                      *)
LEMMA SetMarketPriceStep ==
    ASSUME IInv, NEW quote \in Quotes, SetMarketPrice(quote) PROVE IInv'
<1>1. /\ UNCHANGED <<ord, arrived, level, levels, index, depth, sequence, pc, inc, before>>
      /\ best' = [BUY |-> quote[1], SELL |-> quote[2]] /\ pc = "idle"
  BY DEF SetMarketPrice, callVars
<1>2. quote[1] \in Int /\ quote[2] \in Int
  BY QuotesAssumption
<1>3. best' \in [Side -> Int]
  BY <1>1, <1>2 DEF Side
<1>4. TypeOK'
  BY <1>1, <1>3 DEF IInv, TypeOK
<1>5. RingsOK' /\ InSync' /\ NotCrossed' /\ Contents'
  BY <1>1 DEF IInv, RingsOK, InSync, Sorted, NotCrossed, Contents
<1>6. CallOK' /\ NonEmpty'
  BY <1>1 DEF IInv, CallOK, NonEmpty
<1> QED BY <1>4, <1>5, <1>6 DEF IInv

(* Nothing happens.                                                        *)
LEMMA Stutter ==
    ASSUME IInv, UNCHANGED vars PROVE IInv'
<1>1. UNCHANGED <<ord, arrived, level, levels, index, best, depth, sequence, pc, inc, before>>
  BY DEF vars, bookVars, callVars
<1>2. Opp' = Opp
  BY <1>1 DEF Opp
<1> QED BY <1>1, <1>2 DEF IInv, TypeOK, RingsOK, InSync, Sorted, NotCrossed, Contents, CallOK, NonEmpty

-----------------------------------------------------------------------------
(* No step of any call breaks the invariant.                               *)
LEMMA NextInv == IInv /\ [Next]_vars => IInv'
<1> SUFFICES ASSUME IInv, [Next]_vars PROVE IInv'
  OBVIOUS
<1>1. CASE \E o \in Orders, s \in Side, p \in Prices, q \in Quantities :
              o = arrived + 1 /\ (AddOrder(o, s, p, q) \/ MatchBegin(o, s, p, q))
  BY <1>1, AddOrderStep, MatchBeginStep
<1>2. CASE MatchStep
  BY <1>2, LevelTopStep, LevelDryStep, FillStepStep, LevelDoneStep, MatchEndStep DEF MatchStep
<1>3. CASE \E o \in Orders : CancelOrder(o)
  BY <1>3, CancelOrderStep
<1>4. CASE \E quote \in Quotes : SetMarketPrice(quote)
  BY <1>4, SetMarketPriceStep
<1>5. CASE UNCHANGED vars
  BY <1>5, Stutter
<1> QED BY <1>1, <1>2, <1>3, <1>4, <1>5 DEF Next

(* Whatever is added, matched, cancelled or quoted, in whatever order and  *)
(* however full the rings are, the book keeps the invariant.               *)
THEOREM BookInvariance == Spec => []IInv
BY InitInv, NextInv, PTL DEF Spec

(* The book's variables keep their types.                                  *)
THEOREM BookTypeCorrect == Spec => []TypeOK
<1>1. IInv => TypeOK
  BY DEF IInv
<1> QED BY <1>1, BookInvariance, PTL

(* The vectors of levels are sorted and agree with m_price_to_level after  *)
(* every step of every call.                                               *)
THEOREM BookInSync == Spec => []InSync
<1>1. IInv => InSync
  BY DEF IInv
<1> QED BY <1>1, BookInvariance, PTL

(* No bid level is ever at or above an ask level.                          *)
THEOREM BookNotCrossed == Spec => []NotCrossed
<1>1. IInv => NotCrossed
  BY DEF IInv
<1> QED BY <1>1, BookInvariance, PTL

-----------------------------------------------------------------------------
(* The hypothesis of the theorems below: the environment leaves the last   *)
(* slot of each ring free.  Without it they are false, the code has no     *)
(* check of its own.                                                       *)
RingsHaveRoom == RingLimit \in 1 .. MAX_ORDERS - 1

-----------------------------------------------------------------------------
(* Rings as queues.  A slot belongs to the window from head to tail when   *)
(* it is closer to the head than the tail is.                              *)
InWindow(L, i) == Distance(L.head, i) < Span(L)

(* The window is full of orders, the rest of the ring is empty, and the    *)
(* orders get younger from head to tail.                                   *)
RingIsQueue(L) ==
    /\ L \in Level
    /\ L.size = Span(L)
    /\ \A i \in Slots : L.buffer[i] # NoOrder <=> InWindow(L, i)
    /\ \A i, j \in Slots :
          Distance(L.head, i) < Distance(L.head, j) /\ InWindow(L, j)
          => L.buffer[i] < L.buffer[j]

(* Cursors that pass a slot: a slot that the head has not reached comes    *)
(* closer, one that it has passed is a ring away.                          *)
LEMMA HeadPasses ==
    ASSUME NEW h \in Slots, NEW i \in Slots, NEW k \in 0 .. MAX_ORDERS - 1
    PROVE  /\ Distance(h, i) \in 0 .. MAX_ORDERS - 1
           /\ Distance(h, i) = 0 <=> i = h
           /\ Slot(h, Distance(h, i)) = i
           /\ Distance(h, Slot(h, k)) = k
           /\ Distance(Slot(h, k), i) = IF k <= Distance(h, i) THEN Distance(h, i) - k
                                        ELSE Distance(h, i) - k + MAX_ORDERS
<1>1. /\ MAX_ORDERS \in Nat /\ h \in Nat /\ i \in Nat /\ k \in Nat
      /\ h < MAX_ORDERS /\ i < MAX_ORDERS /\ k < MAX_ORDERS
  BY RingSize DEF Slots
<1>2. CASE h <= i /\ h + k < MAX_ORDERS
  BY <1>1, <1>2 DEF Distance, Slot
<1>3. CASE ~(h <= i) /\ h + k < MAX_ORDERS
  BY <1>1, <1>3 DEF Distance, Slot
<1>4. CASE h <= i /\ ~(h + k < MAX_ORDERS)
  BY <1>1, <1>4 DEF Distance, Slot
<1>5. CASE ~(h <= i) /\ ~(h + k < MAX_ORDERS)
  BY <1>1, <1>5 DEF Distance, Slot
<1> QED BY <1>1, <1>2, <1>3, <1>4, <1>5

(* What RingIsQueue says of the parts of a ring.                           *)
LEMMA QueueParts ==
    ASSUME NEW L, RingIsQueue(L)
    PROVE  /\ RingOK(L) /\ L \in Level /\ L.head \in Slots /\ L.tail \in Slots /\ L.total \in Int
           /\ L.buffer \in [Slots -> Orders \cup {NoOrder}]
           /\ Span(L) \in 0 .. MAX_ORDERS - 1 /\ L.size = Span(L)
           /\ Span(L) = Distance(L.head, L.tail) /\ (Span(L) = 0 <=> L.head = L.tail)
           /\ \A i \in Slots : Distance(L.head, i) \in 0 .. MAX_ORDERS - 1
<1>1. L \in Level /\ L.size = Span(L)
  BY DEF RingIsQueue
<1>2. Span(L) \in 0 .. MAX_ORDERS - 1
  BY <1>1, SpanType
<1>3. RingOK(L)
  BY <1>1, <1>2 DEF RingOK
<1>4. L.head \in Slots
  BY <1>3, RingParts
<1>5. 0 \in 0 .. MAX_ORDERS - 1
  BY RingSize
<1>6. \A i \in Slots : Distance(L.head, i) \in 0 .. MAX_ORDERS - 1
  BY <1>4, <1>5, HeadPasses
<1> QED BY <1>1, <1>3, <1>6, RingParts, SpanIsDistance

(* What is queued is what the slots hold.                                  *)
LEMMA QueuedInSlots ==
    ASSUME NEW L, RingIsQueue(L)
    PROVE  \A o : o \in Queued(L) <=> o # NoOrder /\ \E i \in Slots : L.buffer[i] = o
<1>1. /\ L.head \in Slots /\ Span(L) \in 0 .. MAX_ORDERS - 1
      /\ \A i \in Slots : Distance(L.head, i) \in 0 .. MAX_ORDERS - 1
  BY QueueParts
<1>2. ASSUME NEW k \in 0 .. Span(L) - 1 PROVE Slot(L.head, k) \in Slots
  BY <1>1, SlotType, RingSize
<1>3. ASSUME NEW i \in Slots, L.buffer[i] # NoOrder
      PROVE  \E k \in 0 .. Span(L) - 1 : Slot(L.head, k) = i
  <2>1. Distance(L.head, i) < Span(L)
    BY <1>3 DEF RingIsQueue, InWindow
  <2>2. Distance(L.head, i) \in 0 .. Span(L) - 1
    BY <1>1, <2>1
  <2>4. 0 \in 0 .. MAX_ORDERS - 1
    BY RingSize
  <2>3. Slot(L.head, Distance(L.head, i)) = i
    BY <1>1, <2>4, HeadPasses
  <2> QED BY <2>2, <2>3
<1> QED BY <1>2, <1>3 DEF Queued

(* No order is in a ring twice.                                            *)
LEMMA QueueOnce ==
    ASSUME NEW L, RingIsQueue(L), NEW i \in Slots, NEW j \in Slots,
           L.buffer[i] = L.buffer[j], L.buffer[i] # NoOrder
    PROVE  i = j
<1>0. /\ L.head \in Slots /\ Distance(L.head, i) \in Nat /\ Distance(L.head, j) \in Nat
      /\ 0 \in 0 .. MAX_ORDERS - 1 /\ L.buffer[i] \in Orders
  BY QueueParts, RingSize
<1>1. /\ L.head \in Slots /\ Distance(L.head, i) \in Nat /\ Distance(L.head, j) \in Nat
      /\ InWindow(L, i) /\ InWindow(L, j) /\ 0 \in 0 .. MAX_ORDERS - 1
      /\ L.buffer[i] \in Nat /\ L.buffer[j] \in Nat
  BY <1>0, OrdersAssumption DEF RingIsQueue
<1>2. Distance(L.head, i) = Distance(L.head, j)
  BY <1>1 DEF RingIsQueue
<1>3. Slot(L.head, Distance(L.head, i)) = i /\ Slot(L.head, Distance(L.head, j)) = j
  BY <1>1, HeadPasses
<1> QED BY <1>2, <1>3

(* A queue that is not exhausted has its oldest order at the head.         *)
LEMMA HeadIsOldest ==
    ASSUME NEW L, RingIsQueue(L)
    PROVE  /\ Exhausted(L) => \A i \in Slots : L.buffer[i] = NoOrder
           /\ ~Exhausted(L) => /\ L.head \in Slots /\ HeadOrder(L) # NoOrder
                               /\ HeadOrder(L) \in Orders
                               /\ \A i \in Slots : i # L.head /\ L.buffer[i] # NoOrder
                                                   => HeadOrder(L) < L.buffer[i]
<1>1. /\ L.head \in Slots /\ Span(L) \in Nat /\ (Span(L) = 0 <=> L.head = L.tail)
      /\ \A i \in Slots : Distance(L.head, i) \in Nat
      /\ L.buffer \in [Slots -> Orders \cup {NoOrder}] /\ 0 \in 0 .. MAX_ORDERS - 1
  BY QueueParts, RingSize
<1>2. \A i \in Slots : Distance(L.head, i) = 0 <=> i = L.head
  BY <1>1, HeadPasses
<1>3. ASSUME Exhausted(L), NEW i \in Slots PROVE L.buffer[i] = NoOrder
  <2>1. ~InWindow(L, i)
    BY <1>1, <1>3 DEF Exhausted, InWindow
  <2> QED BY <2>1 DEF RingIsQueue
<1>4. ASSUME ~Exhausted(L) PROVE HeadOrder(L) # NoOrder /\ HeadOrder(L) \in Orders
  <2>1. InWindow(L, L.head)
    BY <1>1, <1>2, <1>4 DEF Exhausted, InWindow
  <2> QED BY <1>1, <2>1 DEF RingIsQueue, HeadOrder
<1>5. ASSUME NEW i \in Slots, i # L.head, L.buffer[i] # NoOrder PROVE HeadOrder(L) < L.buffer[i]
  <2>1. InWindow(L, i) /\ Distance(L.head, L.head) < Distance(L.head, i)
    BY <1>1, <1>2, <1>5 DEF RingIsQueue
  <2> QED BY <1>1, <2>1 DEF RingIsQueue, HeadOrder
<1> QED BY <1>1, <1>3, <1>4, <1>5

(* A ring whose head has moved k places, over slots that were cleared, and *)
(* whose counter went down with it, is the rest of the queue.              *)
LEMMA QueueDrops ==
    ASSUME NEW L, RingIsQueue(L), NEW k \in 0 .. Span(L), NEW M \in Level,
           M.head = Slot(L.head, k), M.tail = L.tail, M.size = L.size - k,
           \A i \in Slots : M.buffer[i] = IF Distance(L.head, i) < k THEN NoOrder ELSE L.buffer[i]
    PROVE  RingIsQueue(M)
<1>1. /\ L.head \in Slots /\ L.tail \in Slots /\ Span(L) \in 0 .. MAX_ORDERS - 1
      /\ L.size = Span(L) /\ Span(L) = Distance(L.head, L.tail)
      /\ \A i \in Slots : Distance(L.head, i) \in 0 .. MAX_ORDERS - 1
  BY QueueParts
<1>2. k \in 0 .. MAX_ORDERS - 1 /\ k \in Nat /\ Span(L) \in Nat /\ MAX_ORDERS \in Nat
  BY <1>1, RingSize
<1>3. \A i \in Slots : Distance(M.head, i) = IF k <= Distance(L.head, i) THEN Distance(L.head, i) - k
                                             ELSE Distance(L.head, i) - k + MAX_ORDERS
  BY <1>1, <1>2, HeadPasses
<1>4. Span(M) = Span(L) - k
  BY <1>1, <1>2, <1>3, SpanIsDistance
<1>5. ASSUME NEW i \in Slots
      PROVE  /\ InWindow(M, i) <=> k <= Distance(L.head, i) /\ InWindow(L, i)
             /\ M.buffer[i] # NoOrder <=> InWindow(M, i)
             /\ InWindow(M, i) => M.buffer[i] = L.buffer[i]
  <2>1. InWindow(M, i) <=> k <= Distance(L.head, i) /\ InWindow(L, i)
    <3>1. Distance(L.head, i) \in 0 .. MAX_ORDERS - 1
      BY <1>1
    <3>2. Distance(M.head, i) = IF k <= Distance(L.head, i) THEN Distance(L.head, i) - k
                                ELSE Distance(L.head, i) - k + MAX_ORDERS
      BY <1>3
    <3> QED BY <1>1, <1>2, <1>4, <3>1, <3>2 DEF InWindow
  <2>2. L.buffer[i] # NoOrder <=> InWindow(L, i)
    BY DEF RingIsQueue
  <2>3. Distance(L.head, i) < k <=> ~(k <= Distance(L.head, i))
    BY <1>1, <1>2
  <2> QED BY <2>1, <2>2, <2>3
<1>6. ASSUME NEW i \in Slots, NEW j \in Slots,
             Distance(M.head, i) < Distance(M.head, j), InWindow(M, j)
      PROVE  M.buffer[i] < M.buffer[j]
  <2>1. /\ Distance(L.head, i) \in 0 .. MAX_ORDERS - 1 /\ Distance(L.head, j) \in 0 .. MAX_ORDERS - 1
        /\ k <= Distance(L.head, j) /\ InWindow(L, j)
        /\ Distance(M.head, j) = Distance(L.head, j) - k
    BY <1>1, <1>3, <1>5, <1>6
  <2>2. Distance(M.head, i) = IF k <= Distance(L.head, i) THEN Distance(L.head, i) - k
                              ELSE Distance(L.head, i) - k + MAX_ORDERS
    BY <1>3
  <2>3. k <= Distance(L.head, i) /\ Distance(L.head, i) < Distance(L.head, j)
    BY <1>2, <1>6, <2>1, <2>2
  <2>4. InWindow(M, i)
    BY <1>1, <1>5, <2>1, <2>3 DEF InWindow
  <2> QED BY <1>5, <1>6, <2>1, <2>3, <2>4 DEF RingIsQueue
<1>7. M.size = Span(M)
  BY <1>1, <1>4
<1> QED BY <1>5, <1>6, <1>7 DEF RingIsQueue

(* advance() drops dead orders from the front of the queue, and stops at   *)
(* the first live one.                                                     *)
LEMMA AdvanceQueue ==
    ASSUME NEW L, RingIsQueue(L), NEW live
    PROVE  LET A == Advance(L, live)
           IN  /\ RingIsQueue(A) /\ A.total = L.total
               /\ \A i \in Slots : \/ A.buffer[i] = L.buffer[i]
                                   \/ A.buffer[i] = NoOrder /\ L.buffer[i] \notin live
               /\ ~Exhausted(A) => HeadOrder(A) \in live
<1> DEFINE k == DeadRun(L, live)
           A == Advance(L, live)
           dropped == {Slot(L.head, j) : j \in 0 .. k - 1}
<1>1. RingOK(L) /\ L \in Level /\ L.head \in Slots /\ Span(L) \in 0 .. MAX_ORDERS - 1
  BY QueueParts
<1>2. k \in 0 .. Span(L) /\ IsDeadRun(L, live, k)
  BY <1>1, DeadRunExists
<1>3. /\ A.buffer = [i \in Slots |-> IF i \in dropped THEN NoOrder ELSE L.buffer[i]]
      /\ A.head = Slot(L.head, k) /\ A.tail = L.tail /\ A.size = L.size - k
      /\ A.total = L.total
  BY DEF Advance
<1>4. A \in Level /\ (~Exhausted(A) => HeadOrder(A) \in live)
  BY <1>1, AdvanceProperties DEF RingOK
<1> HIDE DEF A, k
<1>5. ASSUME NEW i \in Slots
      PROVE  i \in dropped <=> Distance(L.head, i) < k
  <2>1. Distance(L.head, i) \in 0 .. MAX_ORDERS - 1 /\ 0 \in 0 .. MAX_ORDERS - 1
    BY QueueParts, RingSize
  <2>2. ASSUME NEW j \in 0 .. k - 1, i = Slot(L.head, j) PROVE Distance(L.head, i) < k
    <3>1. j \in 0 .. MAX_ORDERS - 1 /\ j < k
      <4>1. /\ k \in Nat /\ k <= Span(L) /\ Span(L) \in Nat /\ Span(L) <= MAX_ORDERS - 1
            /\ MAX_ORDERS \in Nat
        BY <1>1, <1>2, RingSize
      <4> QED BY <4>1
    <3>2. Distance(L.head, Slot(L.head, j)) = j
      BY <1>1, <3>1, HeadPasses
    <3> QED BY <2>2, <3>1, <3>2
  <2>3. ASSUME Distance(L.head, i) < k PROVE \E j \in 0 .. k - 1 : i = Slot(L.head, j)
    <3>1. Distance(L.head, i) \in 0 .. k - 1
      BY <1>2, <2>1, <2>3
    <3>2. Slot(L.head, Distance(L.head, i)) = i
      BY <1>1, <2>1, HeadPasses
    <3> QED BY <3>1, <3>2
  <2> QED BY <2>2, <2>3
<1>6. \A i \in Slots : A.buffer[i] = IF Distance(L.head, i) < k THEN NoOrder ELSE L.buffer[i]
  BY <1>3, <1>5
<1>7. RingIsQueue(A)
  BY <1>2, <1>3, <1>4, <1>6, QueueDrops
<1>8. \A i \in dropped : L.buffer[i] \notin live
  BY <1>2 DEF IsDeadRun
<1>9. \A i \in Slots : \/ A.buffer[i] = L.buffer[i]
                       \/ A.buffer[i] = NoOrder /\ L.buffer[i] \notin live
  BY <1>5, <1>6, <1>8
<1> QED BY <1>3, <1>4, <1>7, <1>9 DEF A

(* add_order() of the youngest order appends it, if a slot stays free.     *)
LEMMA PushBackQueue ==
    ASSUME NEW L, RingIsQueue(L), NEW o \in Orders, NEW r \in Nat, r > 0,
           L.size + 1 < MAX_ORDERS, \A i \in Slots : L.buffer[i] < o
    PROVE  LET P == PushBack(L, o, r)
           IN  /\ RingIsQueue(P) /\ P.total = L.total + r
               /\ L.tail \in Slots /\ L.buffer[L.tail] = NoOrder /\ P.buffer[L.tail] = o
               /\ \A i \in Slots : i # L.tail => P.buffer[i] = L.buffer[i]
<1> DEFINE P == PushBack(L, o, r)
<1>1. /\ RingOK(L) /\ L \in Level /\ L.head \in Slots /\ L.tail \in Slots
      /\ Span(L) \in 0 .. MAX_ORDERS - 1 /\ Span(L) = L.size
      /\ Span(L) = Distance(L.head, L.tail)
      /\ L.buffer \in [Slots -> Orders \cup {NoOrder}]
      /\ \A i \in Slots : Distance(L.head, i) \in 0 .. MAX_ORDERS - 1
  BY QueueParts
<1>2. P \in Level
  BY <1>1, PushBackProperties DEF RingOK
<1>3. /\ P.buffer = [L.buffer EXCEPT ![L.tail] = o] /\ P.head = L.head
      /\ P.tail = Slot(L.tail, 1) /\ P.size = L.size + 1 /\ P.total = L.total + r
  BY DEF PushBack
<1> HIDE DEF P
<1>4. P.buffer[L.tail] = o /\ \A i \in Slots : i # L.tail => P.buffer[i] = L.buffer[i]
  BY <1>1, <1>3
<1>5. L.buffer[L.tail] = NoOrder
  BY <1>1 DEF RingIsQueue, InWindow
<1>6. Span(P) = Span(L) + 1
  <2>0. L.head \in Slots /\ L.tail \in Slots
    BY <1>1
  <2>1. /\ MAX_ORDERS \in Nat /\ L.head \in Nat /\ L.tail \in Nat
        /\ L.head < MAX_ORDERS /\ L.tail < MAX_ORDERS
    BY <2>0, RingSize DEF Slots
  <2>2. Distance(L.head, L.tail) + 1 < MAX_ORDERS
    BY <1>1
  <2>3. Distance(L.head, Slot(L.tail, 1)) = Distance(L.head, L.tail) + 1
    BY <2>1, <2>2 DEF Distance, Slot
  <2> QED BY <1>1, <1>3, <2>3, SpanIsDistance
<1>7. ASSUME NEW i \in Slots, i # L.tail PROVE Distance(L.head, i) # Span(L)
  <2>1. 0 \in 0 .. MAX_ORDERS - 1
    BY RingSize
  <2>2. /\ Slot(L.head, Distance(L.head, i)) = i
        /\ Slot(L.head, Distance(L.head, L.tail)) = L.tail
    BY <1>1, <2>1, HeadPasses
  <2> QED BY <1>1, <1>7, <2>2
<1>8. ASSUME NEW i \in Slots
      PROVE  /\ InWindow(P, i) <=> (i = L.tail \/ InWindow(L, i))
             /\ P.buffer[i] # NoOrder <=> InWindow(P, i)
  <2>1. Distance(L.head, i) \in Nat /\ Span(L) \in Nat
    BY <1>1
  <2>2. InWindow(P, i) <=> (i = L.tail \/ InWindow(L, i))
    BY <1>1, <1>3, <1>6, <1>7, <2>1 DEF InWindow
  <2>3. o # NoOrder
    BY OrdersAssumption
  <2> QED BY <1>4, <1>5, <2>2, <2>3 DEF RingIsQueue
<1>9. ASSUME NEW i \in Slots, NEW j \in Slots,
             Distance(P.head, i) < Distance(P.head, j), InWindow(P, j)
      PROVE  P.buffer[i] < P.buffer[j]
  <2>0. Distance(L.head, i) \in Nat /\ Distance(L.head, j) \in Nat /\ Span(L) \in Nat
    BY <1>1
  <2>1. CASE j = L.tail
    <3>1. i # L.tail
      BY <1>3, <1>9, <2>0, <2>1
    <3> QED BY <1>4, <2>1, <3>1
  <2>2. CASE j # L.tail
    <3>1. InWindow(L, j) /\ i # L.tail
      BY <1>1, <1>3, <1>8, <1>9, <2>0, <2>2 DEF InWindow
    <3> QED BY <1>3, <1>4, <1>9, <2>2, <3>1 DEF RingIsQueue
  <2> QED BY <2>1, <2>2
<1>10. P.size = Span(P)
  BY <1>1, <1>3, <1>6
<1>11. RingIsQueue(P)
  BY <1>2, <1>8, <1>9, <1>10 DEF RingIsQueue
<1> QED BY <1>1, <1>3, <1>4, <1>5, <1>11 DEF P

(* A fill leaves the head where it is or takes it out of the queue.        *)
LEMMA FillFrontQueue ==
    ASSUME NEW L, RingIsQueue(L), ~Exhausted(L), NEW q \in Nat, NEW left \in Nat
    PROVE  LET F == FillFront(L, q, left)
           IN  /\ RingIsQueue(F) /\ F.total = L.total - q
               /\ \A i \in Slots : i # L.head => F.buffer[i] = L.buffer[i]
               /\ F.buffer[L.head] = IF left > 0 THEN L.buffer[L.head] ELSE NoOrder
<1> DEFINE F == FillFront(L, q, left)
<1>1. /\ RingOK(L) /\ L \in Level /\ L.head \in Slots /\ L.tail \in Slots /\ L.total \in Int
      /\ Span(L) \in 0 .. MAX_ORDERS - 1 /\ Span(L) = L.size /\ Span(L) # 0
      /\ L.buffer \in [Slots -> Orders \cup {NoOrder}]
      /\ \A i \in Slots : Distance(L.head, i) \in 0 .. MAX_ORDERS - 1
  BY QueueParts DEF Exhausted
<1>2. CASE left > 0
  <2>1. /\ F.buffer = L.buffer /\ F.head = L.head /\ F.tail = L.tail /\ F.size = L.size
        /\ F.total = L.total - q
        /\ F = [buffer |-> F.buffer, head |-> F.head, tail |-> F.tail, size |-> F.size,
                total |-> F.total]
    BY <1>1, <1>2 DEF FillFront, Level
  <2>2. F \in Level /\ Span(F) = Span(L)
    BY <1>1, <2>1 DEF Level, Span
  <2> HIDE DEF F
  <2>3. RingIsQueue(F)
    BY <2>1, <2>2 DEF RingIsQueue, InWindow
  <2> QED BY <1>2, <2>1, <2>3 DEF F
<1>3. CASE ~(left > 0)
  <2>1. /\ F.buffer = [L.buffer EXCEPT ![L.head] = NoOrder] /\ F.head = Slot(L.head, 1)
        /\ F.tail = L.tail /\ F.size = L.size - 1 /\ F.total = L.total - q
    BY <1>1, <1>3 DEF FillFront, Level
  <2>2. F \in Level
    BY <1>1, FillFrontProperties DEF RingOK
  <2> HIDE DEF F
  <2>3. \A i \in Slots : F.buffer[i] = IF i = L.head THEN NoOrder ELSE L.buffer[i]
    BY <1>1, <2>1
  <2>4. 1 \in 0 .. Span(L)
    BY <1>1
  <2>5. ASSUME NEW i \in Slots PROVE Distance(L.head, i) < 1 <=> i = L.head
    <3>1. 0 \in 0 .. MAX_ORDERS - 1
      BY RingSize
    <3>2. Distance(L.head, i) = 0 <=> i = L.head
      BY <1>1, <3>1, HeadPasses
    <3> QED BY <1>1, <3>2
  <2>6. \A i \in Slots : F.buffer[i] = IF Distance(L.head, i) < 1 THEN NoOrder ELSE L.buffer[i]
    BY <2>3, <2>5
  <2>7. RingIsQueue(F)
    BY <2>1, <2>2, <2>4, <2>6, QueueDrops
  <2> QED BY <1>1, <1>3, <2>1, <2>3, <2>7 DEF F
<1> QED BY <1>2, <1>3

(* remove_order() takes the quantity of the order out of the total; it     *)
(* drops the order itself, and dead ones behind it, only from the head.    *)
LEMMA RemoveOrderQueue ==
    ASSUME NEW L, RingIsQueue(L), NEW o, NEW r, r \in Nat, NEW live
    PROVE  LET R == RemoveOrder(L, o, r, live)
           IN  /\ RingIsQueue(R) /\ R.total = L.total - r
               /\ \A i \in Slots : \/ R.buffer[i] = L.buffer[i]
                                   \/ R.buffer[i] = NoOrder /\ L.buffer[i] \notin live \ {o}
<1> DEFINE M == [L EXCEPT !.total = L.total - r]
<1>1. L \in Level /\ L.total \in Int
  BY QueueParts
<1>2. /\ M.buffer = L.buffer /\ M.head = L.head /\ M.tail = L.tail /\ M.size = L.size
      /\ M.total = L.total - r /\ M \in Level
  BY <1>1 DEF Level
<1>3. RingIsQueue(M)
  BY <1>2 DEF RingIsQueue, InWindow, Span
<1>4. CASE ~Exhausted(L) /\ HeadOrder(L) = o
  <2>1. RemoveOrder(L, o, r, live) = Advance(M, live \ {o})
    BY <1>4 DEF RemoveOrder
  <2> HIDE DEF M
  <2> QED BY <1>2, <1>3, <2>1, AdvanceQueue
<1>5. CASE ~(~Exhausted(L) /\ HeadOrder(L) = o)
  BY <1>2, <1>3, <1>5 DEF RemoveOrder
<1> QED BY <1>4, <1>5

(* The same in terms of the orders that are queued.                        *)
LEMMA QueuedByOps ==
    ASSUME NEW L, RingIsQueue(L)
    PROVE  /\ Queued(L) \subseteq Orders
           /\ Exhausted(L) => Queued(L) = {}
           /\ L.size = 0 => Queued(L) = {}
           /\ ~Exhausted(L) => /\ HeadOrder(L) \in Queued(L)
                               /\ \A o \in Queued(L) : o = HeadOrder(L) \/ HeadOrder(L) < o
           /\ \A live :
                 /\ Queued(Advance(L, live)) \subseteq Queued(L)
                 /\ Queued(L) \cap live \subseteq Queued(Advance(L, live))
           /\ \A o, live : \A r \in Nat :
                 /\ Queued(RemoveOrder(L, o, r, live)) \subseteq Queued(L)
                 /\ Queued(L) \cap (live \ {o}) \subseteq Queued(RemoveOrder(L, o, r, live))
           /\ \A q, left \in Nat :
                 ~Exhausted(L) => Queued(FillFront(L, q, left)) =
                                     IF left > 0 THEN Queued(L) ELSE Queued(L) \ {HeadOrder(L)}
<1>1. \A o : o \in Queued(L) <=> o # NoOrder /\ \E i \in Slots : L.buffer[i] = o
  BY QueuedInSlots
<1>2. L.buffer \in [Slots -> Orders \cup {NoOrder}] /\ L.head \in Slots
      /\ (L.size = 0 => Exhausted(L))
  BY QueueParts DEF Exhausted
<1>3. Queued(L) \subseteq Orders
  BY <1>1, <1>2
<1>4. Exhausted(L) => Queued(L) = {}
  BY <1>1, HeadIsOldest
<1>5. ASSUME ~Exhausted(L)
      PROVE  /\ HeadOrder(L) \in Queued(L)
             /\ \A o \in Queued(L) : o = HeadOrder(L) \/ HeadOrder(L) < o
  BY <1>1, <1>5, HeadIsOldest DEF HeadOrder
<1>6. ASSUME NEW live
      PROVE  /\ Queued(Advance(L, live)) \subseteq Queued(L)
             /\ Queued(L) \cap live \subseteq Queued(Advance(L, live))
  <2> DEFINE A == Advance(L, live)
  <2>1. /\ RingIsQueue(A)
        /\ \A i \in Slots : \/ A.buffer[i] = L.buffer[i]
                            \/ A.buffer[i] = NoOrder /\ L.buffer[i] \notin live
    BY AdvanceQueue
  <2> HIDE DEF A
  <2>2. \A o : o \in Queued(A) <=> o # NoOrder /\ \E i \in Slots : A.buffer[i] = o
    BY <2>1, QueuedInSlots
  <2>3. Queued(A) \subseteq Queued(L) /\ Queued(L) \cap live \subseteq Queued(A)
    BY <1>1, <2>1, <2>2
  <2> QED BY <2>3 DEF A
<1>7. ASSUME NEW o, NEW live, NEW r \in Nat
      PROVE  /\ Queued(RemoveOrder(L, o, r, live)) \subseteq Queued(L)
             /\ Queued(L) \cap (live \ {o}) \subseteq Queued(RemoveOrder(L, o, r, live))
  <2> DEFINE R == RemoveOrder(L, o, r, live)
  <2>1. /\ RingIsQueue(R)
        /\ \A i \in Slots : \/ R.buffer[i] = L.buffer[i]
                            \/ R.buffer[i] = NoOrder /\ L.buffer[i] \notin live \ {o}
    BY RemoveOrderQueue
  <2> HIDE DEF R
  <2>2. \A x : x \in Queued(R) <=> x # NoOrder /\ \E i \in Slots : R.buffer[i] = x
    BY <2>1, QueuedInSlots
  <2>3. Queued(R) \subseteq Queued(L) /\ Queued(L) \cap (live \ {o}) \subseteq Queued(R)
    BY <1>1, <2>1, <2>2
  <2> QED BY <2>3 DEF R
<1>8. ASSUME NEW q \in Nat, NEW left \in Nat, ~Exhausted(L)
      PROVE  Queued(FillFront(L, q, left)) =
                IF left > 0 THEN Queued(L) ELSE Queued(L) \ {HeadOrder(L)}
  <2> DEFINE F == FillFront(L, q, left)
  <2>1. /\ RingIsQueue(F)
        /\ \A i \in Slots : i # L.head => F.buffer[i] = L.buffer[i]
        /\ F.buffer[L.head] = IF left > 0 THEN L.buffer[L.head] ELSE NoOrder
    BY <1>8, FillFrontQueue
  <2> HIDE DEF F
  <2>2. \A o : o \in Queued(F) <=> o # NoOrder /\ \E i \in Slots : F.buffer[i] = o
    BY <2>1, QueuedInSlots
  <2>3. CASE left > 0
    <3>1. \A i \in Slots : F.buffer[i] = L.buffer[i]
      BY <2>1, <2>3
    <3> QED BY <1>1, <2>2, <2>3, <3>1 DEF F
  <2>4. CASE ~(left > 0)
    <3>1. \A i \in Slots : i # L.head /\ L.buffer[i] # NoOrder => L.buffer[i] # L.buffer[L.head]
      BY <1>2, QueueOnce
    <3>2. \A o : o \in Queued(F) <=> o \in Queued(L) \ {L.buffer[L.head]}
      BY <1>1, <1>2, <2>1, <2>2, <2>4, <3>1
    <3> QED BY <2>4, <3>2 DEF F, HeadOrder
  <2> QED BY <2>3, <2>4
<1> QED BY <1>2, <1>3, <1>4, <1>5, <1>6, <1>7, <1>8

(* Appending the youngest order.                                           *)
LEMMA QueuedByPush ==
    ASSUME NEW L, RingIsQueue(L), NEW o \in Orders, NEW r \in Nat, r > 0,
           L.size + 1 < MAX_ORDERS, \A x \in Queued(L) : x < o
    PROVE  /\ RingIsQueue(PushBack(L, o, r))
           /\ PushBack(L, o, r).total = L.total + r
           /\ Queued(PushBack(L, o, r)) = Queued(L) \cup {o}
<1> DEFINE P == PushBack(L, o, r)
<1>1. \A x : x \in Queued(L) <=> x # NoOrder /\ \E i \in Slots : L.buffer[i] = x
  BY QueuedInSlots
<1>2. o \in Nat /\ o # NoOrder /\ NoOrder < o
  BY OrdersAssumption DEF NoOrder
<1>3. \A i \in Slots : L.buffer[i] < o
  BY <1>1, <1>2
<1>4. /\ RingIsQueue(P) /\ P.total = L.total + r
      /\ L.tail \in Slots /\ L.buffer[L.tail] = NoOrder /\ P.buffer[L.tail] = o
      /\ \A i \in Slots : i # L.tail => P.buffer[i] = L.buffer[i]
  BY <1>3, PushBackQueue
<1> HIDE DEF P
<1>5. \A x : x \in Queued(P) <=> x # NoOrder /\ \E i \in Slots : P.buffer[i] = x
  BY <1>4, QueuedInSlots
<1>6. \A x : x \in Queued(P) <=> x \in Queued(L) \cup {o}
  BY <1>1, <1>2, <1>4, <1>5
<1> QED BY <1>4, <1>6 DEF P

(* A level that was just made.                                             *)
LEMMA EmptyQueue ==
    RingIsQueue(EmptyLevel) /\ Queued(EmptyLevel) = {} /\ EmptyLevel.size = 0 /\ EmptyLevel.total = 0
<1>1. EmptyLevel \in Level /\ EmptyLevel.size = 0 /\ EmptyLevel.total = 0
      /\ \A i \in Slots : EmptyLevel.buffer[i] = NoOrder
  BY RingSize DEF EmptyLevel, Level, Slots
<1>2. Span(EmptyLevel) = 0
  BY RingSize DEF EmptyLevel, Span
<1>3. EmptyLevel.head \in Slots
  BY <1>1 DEF Level
<1>4. \A i \in Slots : Distance(EmptyLevel.head, i) \in 0 .. MAX_ORDERS - 1
  <2>1. 0 \in 0 .. MAX_ORDERS - 1
    BY RingSize
  <2> QED BY <1>3, <2>1, HeadPasses
<1>5. RingIsQueue(EmptyLevel)
  BY <1>1, <1>2, <1>4 DEF RingIsQueue, InWindow
<1> QED BY <1>1, <1>5, QueuedInSlots

-----------------------------------------------------------------------------
(* The inductive invariant, on top of IInv.                                *)
Queues == \A p \in DOMAIN level : RingIsQueue(level[p])

(* What is in a ring has quantity left or was cancelled; the order that is *)
(* being matched is in no ring.                                            *)
Waiting ==
    \A p \in DOMAIN level : \A o \in Queued(level[p]) :
        /\ o \in Resting \/ ord[o].status = "CANCELLED"
        /\ pc # "idle" => o # inc

(* A resting order is in the ring of its price, and in the index.          *)
Held ==
    \A o \in Resting :
        /\ ord[o].price \in DOMAIN level
        /\ o \in Queued(level[ord[o].price])
        /\ o \in index

(* The index holds no cancelled order, and an order that has not come does *)
(* not count as a live one.                                                *)
Statuses ==
    /\ \A o \in index : is_active(o)
    /\ \A o \in Orders : o > arrived => o \notin Live

(* The running match has the youngest order, room for its remainder, and   *)
(* while it fills, an order with quantity left that reaches the level.     *)
CallQueue ==
    pc # "idle" =>
        /\ inc = arrived /\ ord[inc].status = "NEW"
        /\ RoomAt(ord[inc].side, ord[inc].price)
        /\ pc = "fill" =>
              /\ ord[inc].remaining > 0
              /\ ~Before(ord[inc].side, Opp[1], ord[inc].price)

(* The inductive invariant with the queues.                                *)
QInv == IInv /\ Queues /\ Waiting /\ Held /\ Statuses /\ CallQueue

(* A fill.                                                                 *)
Fill == [order : Orders, quantity : Nat, price : Prices]

(* Independent of the rings: the fills of the running or last match were   *)
(* made with orders that had arrived, at prices within their limits.       *)
FillsInv ==
    /\ fills \in Seq(Fill)
    /\ \A i \in 1 .. Len(fills) : fills[i].order <= arrived
    /\ FillWithinLimit
    /\ pc = "fill" => ~Before(ord[inc].side, Opp[1], ord[inc].price)

(* What the orders of a set have left, and the resting orders of a side.   *)
Left(r, S) == SumOver([o \in Orders |-> r[o].remaining], S)

OnSide(s) == {o \in Resting : ord[o].side = s}

(* The depth of a side, during a match corrected by what the match has     *)
(* taken out of the level it works on and not yet booked.                  *)
Booked(s) ==
    IF pc \in {"fill", "leave"} /\ s = Opposite(ord[inc].side)
    THEN depth[s] - (before - level[Opp[1]].total)
    ELSE depth[s]

(* Depth and the levels' totals are sums over the orders that rest.        *)
Counted ==
    /\ \A s \in Side : Booked(s) = Left(ord, OnSide(s))
    /\ \A p \in DOMAIN level : level[p].total = Left(ord, Resting \cap Queued(level[p]))
-----------------------------------------------------------------------------
(* What the invariant says of one order.                                   *)
LEMMA LiveOrder ==
    ASSUME QInv, NEW o \in Live
    PROVE  /\ o \in Orders /\ o \in Nat /\ o <= arrived /\ arrived \in Nat /\ ord[o] \in Order
           /\ ord[o].side \in Side /\ is_active(o)
           /\ ord[o].remaining \in Nat /\ ord[o].remaining > 0
<1>1. o \in Orders /\ o \in Nat /\ ord[o].remaining > 0 /\ is_active(o)
  BY OrdersAssumption DEF Live
<1>2. ord[o] \in Order /\ arrived \in Nat
  BY <1>1 DEF QInv, IInv, TypeOK
<1>3. ord[o].side \in Side /\ ord[o].remaining \in Nat
  BY <1>2 DEF Order
<1>4. o <= arrived
  BY <1>1, <1>2, <1>3 DEF QInv, Statuses
<1> QED BY <1>1, <1>2, <1>3, <1>4

(* What the invariant says of an order in a ring.                          *)
LEMMA QueuedOrder ==
    ASSUME QInv, NEW p \in DOMAIN level, NEW o \in Queued(level[p])
    PROVE  /\ o \in Orders /\ o \in Nat /\ o <= arrived /\ arrived \in Nat
           /\ ord[o] \in Order /\ ord[o].side \in Side /\ ord[o].price = p
           /\ p \in Prices /\ p \in ToSet(levels[ord[o].side])
<1>1. RingIsQueue(level[p]) /\ IInv /\ p \in Prices
  BY DEF QInv, Queues, IInv, TypeOK
<1>2. PICK i \in Slots : level[p].buffer[i] = o /\ o # NoOrder
  BY <1>1, QueuedInSlots
<1> QED BY <1>1, <1>2, SlotContents

(* What the invariant says of a resting order.                             *)
LEMMA RestingOrder ==
    ASSUME QInv, NEW o \in Resting
    PROVE  /\ o \in Live /\ ord[o].price \in DOMAIN level
           /\ o \in Queued(level[ord[o].price]) /\ o \in index
           /\ ord[o].price \in Prices /\ ord[o].price \in ToSet(levels[ord[o].side])
           /\ pc # "idle" => o # inc
<1>1. /\ o \in Live /\ ord[o].price \in DOMAIN level
      /\ o \in Queued(level[ord[o].price]) /\ o \in index
  BY DEF QInv, Held, Resting
<1> QED BY <1>1, QueuedOrder DEF Resting

(* The order that is being matched.                                        *)
LEMMA Taker ==
    ASSUME QInv, pc # "idle"
    PROVE  /\ inc \in Orders /\ inc = arrived /\ inc \in Nat /\ ord[inc] \in Order
           /\ ord[inc].side \in Side /\ ord[inc].price \in Prices /\ ord[inc].remaining \in Nat
           /\ ord[inc].status = "NEW" /\ inc \notin Resting
           /\ \A p \in DOMAIN level : inc \notin Queued(level[p])
           /\ \A p \in DOMAIN level : \A o \in Queued(level[p]) : o < inc
<1>1. /\ inc \in Orders /\ inc = arrived /\ ord[inc] \in Order /\ ord[inc].side \in Side
      /\ ord[inc].price \in Prices /\ ord[inc].status = "NEW"
  BY MatchedLevel DEF QInv, CallQueue
<1>2. inc \in Nat /\ ord[inc].remaining \in Nat
  BY <1>1, OrdersAssumption DEF Order
<1>3. \A p \in DOMAIN level : inc \notin Queued(level[p])
  BY DEF QInv, Waiting
<1>4. ASSUME NEW p \in DOMAIN level, NEW o \in Queued(level[p]) PROVE o < inc
  <2>1. o \in Nat /\ o <= arrived
    BY QueuedOrder
  <2> QED BY <1>1, <1>2, <1>3, <2>1
<1> QED BY <1>1, <1>2, <1>3, <1>4 DEF Resting

(* The book is empty at first.                                             *)
LEMMA InitQueue == Init => QInv
<1> SUFFICES ASSUME Init PROVE QInv
  OBVIOUS
<1>1. IInv
  BY InitInv
<1>2. DOMAIN level = {} /\ pc = "idle" /\ index = {} /\ ord = [o \in Orders |-> BlankOrder]
  BY DEF Init
<1>3. \A o \in Orders : ord[o].status = "NEW" /\ ord[o].remaining = 0
  BY <1>2 DEF BlankOrder
<1>4. Resting = {}
  BY <1>2, <1>3 DEF Resting, Live
<1>5. Live = {}
  BY <1>3 DEF Live
<1> QED BY <1>1, <1>2, <1>4, <1>5 DEF QInv, Queues, Waiting, Held, Statuses, CallQueue

(* The order that rests is the youngest of its queue.                      *)
LEMMA RestOrderQueue ==
    ASSUME QInv, RingsHaveRoom, NEW o \in Orders, NEW r \in Order, r.price \in Prices,
           r.remaining > 0, NonCrossing(r.side, r.price), RoomAt(r.side, r.price),
           RestOrder(o, r), \A p \in DOMAIN level : \A x \in Queued(level[p]) : x < o
    PROVE  /\ DOMAIN level' = DOMAIN level \cup {r.price}
           /\ \A p \in DOMAIN level : p # r.price => level'[p] = level[p]
           /\ RingIsQueue(level'[r.price])
           /\ Queued(level'[r.price]) =
                 (IF r.price \in DOMAIN level THEN Queued(level[r.price]) ELSE {}) \cup {o}
           /\ level'[r.price].total =
                 (IF r.price \in DOMAIN level THEN level[r.price].total ELSE 0) + r.remaining
           /\ index' = index \cup {o}
           /\ depth' = [depth EXCEPT ![r.side] = @ + r.remaining]
           /\ Queues'
<1> DEFINE p == r.price
           L == IF p \in DOMAIN level THEN level[p] ELSE EmptyLevel
           P == PushBack(L, o, r.remaining)
<1>1. r.side \in Side /\ p \in Prices /\ r.remaining \in Nat /\ RingLimit \in Nat
      /\ MAX_ORDERS \in Nat /\ RingLimit + 1 <= MAX_ORDERS /\ RingLimit > 0
  BY RingSize DEF Order, RingsHaveRoom
<1>2. /\ level' = Put(level, p, P) /\ index' = index \cup {o}
      /\ depth' = [depth EXCEPT ![r.side] = @ + r.remaining]
  BY DEF RestOrder
<1>3. p \in DOMAIN level => p \in ToSet(levels[r.side])
  <2>1. p \notin ToSet(levels[Opposite(r.side)])
    BY <1>1, BeforeOrder DEF NonCrossing
  <2> QED BY <1>1, <2>1, SidesOfBook DEF QInv
<1>4. /\ RingIsQueue(L) /\ L.size < RingLimit /\ L.size \in Nat
      /\ Queued(L) = IF p \in DOMAIN level THEN Queued(level[p]) ELSE {}
      /\ L.total = IF p \in DOMAIN level THEN level[p].total ELSE 0
  <2>1. CASE p \in DOMAIN level
    <3>1. L = level[p] /\ RingIsQueue(level[p])
      BY <2>1 DEF QInv, Queues
    <3>2. level[p].size < RingLimit
      BY <1>3, <2>1 DEF RoomAt
    <3>3. level[p].size \in Nat
      BY <3>1, QueueParts
    <3> QED BY <2>1, <3>1, <3>2, <3>3
  <2>2. CASE p \notin DOMAIN level
    <3>1. L = EmptyLevel
      BY <2>2
    <3> QED BY <1>1, <2>2, <3>1, EmptyQueue
  <2> QED BY <2>1, <2>2
<1>5. \A x \in Queued(L) : x < o
  BY <1>4
<1>6. /\ RingIsQueue(P) /\ P.total = L.total + r.remaining /\ Queued(P) = Queued(L) \cup {o}
  <2> HIDE DEF L
  <2>1. L.size + 1 < MAX_ORDERS
    BY <1>1, <1>4
  <2> QED BY <1>1, <1>4, <1>5, <2>1, QueuedByPush
<1> HIDE DEF L, P
<1>7. /\ DOMAIN level' = DOMAIN level \cup {p} /\ level'[p] = P
      /\ \A x \in DOMAIN level : x # p => level'[x] = level[x]
  BY <1>2 DEF Put
<1>8. Queues'
  BY <1>6, <1>7 DEF QInv, Queues
<1> QED BY <1>2, <1>4, <1>6, <1>7, <1>8
-----------------------------------------------------------------------------
(* The steps.  Each of them is described by what it does to the set of     *)
(* resting orders; the invariant and the refinement follow from that.      *)

(* add_order: the new order rests.                                         *)
LEMMA AddOrderResting ==
    ASSUME QInv, NEW o \in Orders, NEW s \in Side, NEW p \in Prices, NEW q \in Quantities,
           AddOrder(o, s, p, q)
    PROVE  /\ o \notin Resting /\ Resting' = Resting \cup {o}
           /\ ord'[o] = NewOrder(s, p, q) /\ q \in Nat /\ q > 0
           /\ \A x \in Orders : x # o => ord'[x] = ord[x]
           /\ \A x \in Resting : ord'[x] = ord[x]
<1>1. /\ pc = "idle" /\ pc' = "idle" /\ o > arrived /\ q > 0 /\ q \in Nat
      /\ ord' = [ord EXCEPT ![o] = NewOrder(s, p, q)]
  BY QuantitiesAssumption DEF AddOrder, callVars
<1>2. ord'[o] = NewOrder(s, p, q) /\ \A x \in Orders : x # o => ord'[x] = ord[x]
  BY <1>1 DEF QInv, IInv, TypeOK
<1>3. o \notin Live
  BY <1>1 DEF QInv, Statuses
<1>4. ord'[o].remaining = q /\ ord'[o].status = "NEW"
  BY <1>2 DEF NewOrder
<1>5. o \notin Live /\ Live' = Live \cup {o}
  BY <1>1, <1>2, <1>3, <1>4 DEF Live, is_active
<1>6. Resting = Live /\ Resting' = Live'
  BY <1>1 DEF Resting
<1>7. \A x \in Resting : ord'[x] = ord[x]
  BY <1>2, <1>5, <1>6 DEF Live
<1> QED BY <1>1, <1>2, <1>5, <1>6, <1>7

(* add_order puts a new order at the end of its level's queue.             *)
LEMMA AddOrderQueue ==
    ASSUME QInv, RingsHaveRoom, IInv', NEW o \in Orders, NEW s \in Side, NEW p \in Prices,
           NEW q \in Quantities, AddOrder(o, s, p, q)
    PROVE  /\ QInv'
           /\ DOMAIN level' = DOMAIN level \cup {p}
           /\ \A x \in DOMAIN level : x # p => level'[x] = level[x]
           /\ Queued(level'[p]) =
                 (IF p \in DOMAIN level THEN Queued(level[p]) ELSE {}) \cup {o}
           /\ level'[p].total = (IF p \in DOMAIN level THEN level[p].total ELSE 0) + q
           /\ depth' = [depth EXCEPT ![s] = @ + q]
<1> DEFINE r == NewOrder(s, p, q)
<1>1. /\ pc = "idle" /\ pc' = "idle" /\ o > arrived /\ arrived' = o /\ q > 0
      /\ NonCrossing(s, p) /\ RoomAt(s, p) /\ RestOrder(o, r)
  BY DEF AddOrder, callVars
<1>2. r \in Order /\ r.side = s /\ r.price = p /\ r.remaining = q /\ r.status = "NEW"
      /\ o \in Nat /\ arrived \in Nat
  BY NewOrderType, OrdersAssumption DEF NewOrder, QInv, IInv, TypeOK
<1>3. /\ Resting' = Resting \cup {o} /\ ord'[o] = r
      /\ \A x \in Orders : x # o => ord'[x] = ord[x]
      /\ \A x \in Resting : ord'[x] = ord[x]
  BY AddOrderResting
<1> HIDE DEF r
<1>4. \A x \in DOMAIN level : \A y \in Queued(level[x]) : y < o /\ ord'[y] = ord[y]
  <2> SUFFICES ASSUME NEW x \in DOMAIN level, NEW y \in Queued(level[x])
               PROVE  y < o /\ ord'[y] = ord[y]
    OBVIOUS
  <2>1. y \in Orders /\ y \in Nat /\ y <= arrived
    BY QueuedOrder
  <2>2. y < o
    BY <1>1, <1>2, <2>1
  <2> QED BY <1>2, <1>3, <2>1, <2>2
<1>5. /\ DOMAIN level' = DOMAIN level \cup {p}
      /\ \A x \in DOMAIN level : x # p => level'[x] = level[x]
      /\ Queued(level'[p]) =
            (IF p \in DOMAIN level THEN Queued(level[p]) ELSE {}) \cup {o}
      /\ level'[p].total = (IF p \in DOMAIN level THEN level[p].total ELSE 0) + q
      /\ index' = index \cup {o} /\ depth' = [depth EXCEPT ![s] = @ + q] /\ Queues'
  BY <1>1, <1>2, <1>4, RestOrderQueue
<1>6. Waiting'
  <2> SUFFICES ASSUME NEW x \in DOMAIN level', NEW y \in Queued(level'[x])
               PROVE  y \in Resting' \/ ord'[y].status = "CANCELLED"
    BY <1>1 DEF Waiting
  <2>1. CASE y = o
    BY <1>3, <2>1
  <2>2. CASE y # o
    <3>1. x \in DOMAIN level /\ y \in Queued(level[x])
      BY <1>5, <2>2
    <3>2. (y \in Resting \/ ord[y].status = "CANCELLED") /\ ord'[y] = ord[y]
      BY <1>4, <3>1 DEF QInv, Waiting
    <3> QED BY <1>3, <3>2
  <2> QED BY <2>1, <2>2
<1>7. Held'
  <2> SUFFICES ASSUME NEW x \in Resting'
               PROVE  /\ ord'[x].price \in DOMAIN level'
                      /\ x \in Queued(level'[ord'[x].price]) /\ x \in index'
    BY DEF Held
  <2>1. CASE x = o
    BY <1>2, <1>3, <1>5, <2>1
  <2>2. CASE x # o
    <3>1. x \in Resting /\ ord'[x] = ord[x]
      BY <1>3, <2>2
    <3>2. ord[x].price \in DOMAIN level /\ x \in Queued(level[ord[x].price]) /\ x \in index
      BY <3>1, RestingOrder
    <3> QED BY <1>5, <3>1, <3>2
  <2> QED BY <2>1, <2>2
<1>8. Statuses'
  <2>1. \A x \in index' : is_active(x)'
    BY <1>2, <1>3, <1>5 DEF QInv, Statuses, IInv, TypeOK, is_active
  <2>2. \A x \in Orders : x > arrived' => x \notin Live'
    <3> SUFFICES ASSUME NEW x \in Orders, x > o PROVE x \notin Live'
      BY <1>1
    <3>1. x \in Nat /\ x # o /\ x > arrived
      BY <1>1, <1>2, OrdersAssumption
    <3> QED BY <1>3, <3>1 DEF QInv, Statuses, Live, is_active
  <2> QED BY <2>1, <2>2 DEF Statuses
<1>9. CallQueue'
  BY <1>1 DEF CallQueue
<1> QED BY <1>5, <1>6, <1>7, <1>8, <1>9 DEF QInv

(* match up to its loop: the order that is being matched does not rest.    *)
LEMMA MatchBeginResting ==
    ASSUME QInv, NEW o \in Orders, NEW s \in Side, NEW p \in Prices, NEW q \in Quantities,
           MatchBegin(o, s, p, q)
    PROVE  /\ Resting' = Resting /\ ord'[o] = NewOrder(s, p, q) /\ q \in Nat
           /\ \A x \in Orders : x # o => ord'[x] = ord[x]
           /\ \A x \in Resting : ord'[x] = ord[x]
<1>1. /\ pc = "idle" /\ o > arrived /\ q \in Nat
      /\ ord' = [ord EXCEPT ![o] = NewOrder(s, p, q)]
      /\ q = 0 => pc' = "idle"
      /\ q # 0 => pc' = "match" /\ inc' = o
  BY QuantitiesAssumption DEF MatchBegin
<1>2. ord'[o] = NewOrder(s, p, q) /\ \A x \in Orders : x # o => ord'[x] = ord[x]
  BY <1>1 DEF QInv, IInv, TypeOK
<1>3. o \notin Live
  BY <1>1 DEF QInv, Statuses
<1>4. ord'[o].remaining = q /\ ord'[o].status = "NEW"
  BY <1>2 DEF NewOrder
<1>5. o \notin Live /\ Live' = IF q = 0 THEN Live ELSE Live \cup {o}
  BY <1>1, <1>2, <1>3, <1>4 DEF Live, is_active
<1>6. Resting = Live /\ Resting' = Live
  BY <1>1, <1>5 DEF Resting
<1>7. \A x \in Resting : ord'[x] = ord[x]
  BY <1>2, <1>5, <1>6 DEF Live
<1> QED BY <1>1, <1>2, <1>6, <1>7

(* The start of a match leaves the book's queues as they are.              *)
LEMMA MatchBeginQueue ==
    ASSUME QInv, IInv', NEW o \in Orders, NEW s \in Side, NEW p \in Prices,
           NEW q \in Quantities, MatchBegin(o, s, p, q)
    PROVE  QInv'
<1>1. /\ pc = "idle" /\ o > arrived /\ arrived' = o /\ RoomAt(s, p)
      /\ pc' \in {"idle", "match"} /\ (pc' # "idle" => inc' = o)
      /\ UNCHANGED <<level, levels, index>>
  BY DEF MatchBegin, bookVars
<1>2. /\ Resting' = Resting /\ ord'[o] = NewOrder(s, p, q)
      /\ \A x \in Orders : x # o => ord'[x] = ord[x]
      /\ \A x \in Resting : ord'[x] = ord[x]
  BY MatchBeginResting
<1>3. /\ o \in Nat /\ arrived \in Nat /\ ord'[o].status = "NEW"
      /\ ord'[o].side = s /\ ord'[o].price = p
  BY <1>2, OrdersAssumption DEF NewOrder, QInv, IInv, TypeOK
<1>4. Queues'
  BY <1>1 DEF QInv, Queues
<1>5. Waiting'
  <2> SUFFICES ASSUME NEW x \in DOMAIN level, NEW y \in Queued(level[x])
               PROVE  /\ y \in Resting \/ ord'[y].status = "CANCELLED"
                      /\ pc' # "idle" => y # inc'
    BY <1>1, <1>2 DEF Waiting
  <2>1. y \in Orders /\ y \in Nat /\ y <= arrived
    BY QueuedOrder
  <2>2. y # o
    BY <1>1, <1>3, <2>1
  <2> QED BY <1>1, <1>2, <2>1, <2>2 DEF QInv, Waiting
<1>6. Held'
  BY <1>1, <1>2 DEF QInv, Held
<1>7. Statuses'
  <2>1. \A x \in index' : is_active(x)'
    BY <1>1, <1>2, <1>3 DEF QInv, Statuses, IInv, TypeOK, is_active
  <2>2. \A x \in Orders : x > arrived' => x \notin Live'
    <3> SUFFICES ASSUME NEW x \in Orders, x > o PROVE x \notin Live'
      BY <1>1
    <3>1. x \in Nat /\ x # o /\ x > arrived
      BY <1>1, <1>3, OrdersAssumption
    <3> QED BY <1>2, <3>1 DEF QInv, Statuses, Live, is_active
  <2> QED BY <2>1, <2>2 DEF Statuses
<1>8. CallQueue'
  <2> SUFFICES ASSUME pc' # "idle"
               PROVE  inc' = arrived' /\ ord'[inc'].status = "NEW"
                      /\ RoomAt(ord[inc].side, ord[inc].price)'
    BY <1>1 DEF CallQueue
  <2>1. inc' = o /\ ord'[inc'].side = s /\ ord'[inc'].price = p
    BY <1>1, <1>3
  <2>2. RoomAt(ord[inc].side, ord[inc].price)'
    BY <1>1, <2>1 DEF RoomAt
  <2> QED BY <1>1, <1>3, <2>1, <2>2
<1> QED BY <1>4, <1>5, <1>6, <1>7, <1>8 DEF QInv

(* A step inside match that takes orders out of one ring and leaves those  *)
(* in it that still rest.                                                  *)
LEMMA OneRing ==
    ASSUME QInv, pc # "idle", NEW p \in DOMAIN level, NEW M, RingIsQueue(M),
           level' = [level EXCEPT ![p] = M], index' = index, inc' = inc,
           Queued(M) \subseteq Queued(level[p]), Resting' \subseteq Resting,
           Queued(level[p]) \cap Resting' \subseteq Queued(M),
           \A x \in Resting \ Resting' : x \notin Queued(M) /\ ord[x].price = p,
           \A x \in Orders : ord'[x].price = ord[x].price /\ ord'[x].status = ord[x].status
    PROVE  Queues' /\ Waiting' /\ Held'
<1>1. /\ DOMAIN level' = DOMAIN level /\ level'[p] = M
      /\ \A x \in DOMAIN level : x # p => level'[x] = level[x]
  BY DEF QInv, IInv, TypeOK
<1>2. Queues'
  BY <1>1 DEF QInv, Queues
<1>3. Waiting'
  <2> SUFFICES ASSUME NEW x \in DOMAIN level, NEW y \in Queued(level'[x])
               PROVE  (y \in Resting' \/ ord'[y].status = "CANCELLED") /\ y # inc
    BY <1>1 DEF Waiting
  <2>1. y \in Queued(level[x])
    BY <1>1
  <2>2. y \in Orders /\ ord[y].price = x
    BY <2>1, QueuedOrder
  <2>3. (y \in Resting \/ ord[y].status = "CANCELLED") /\ y # inc
    BY <2>1 DEF QInv, Waiting
  <2>4. y \in Resting => y \in Resting'
    BY <1>1, <2>2
  <2> QED BY <2>2, <2>3, <2>4
<1>4. Held'
  <2> SUFFICES ASSUME NEW x \in Resting'
               PROVE  /\ ord'[x].price \in DOMAIN level'
                      /\ x \in Queued(level'[ord'[x].price]) /\ x \in index'
    BY DEF Held
  <2>1. /\ ord[x].price \in DOMAIN level /\ x \in Queued(level[ord[x].price]) /\ x \in index
        /\ x \in Live
    BY RestingOrder
  <2>2. x \in Orders
    BY <2>1 DEF Live
  <2> QED BY <1>1, <2>1, <2>2
<1> QED BY <1>2, <1>3, <1>4

(* The levels on the taker's own side are not touched by a match.          *)
LEMMA OwnSide ==
    ASSUME QInv, pc # "idle", Opp # << >>
    PROVE  /\ Opp[1] \in DOMAIN level /\ Opp[1] \in ToSet(levels[Opposite(ord[inc].side)])
           /\ Opp[1] \notin ToSet(levels[ord[inc].side])
           /\ RingIsQueue(level[Opp[1]])
           /\ Opposite(ord[inc].side) \in Side /\ Opposite(ord[inc].side) # ord[inc].side
<1>1. ord[inc].side \in Side /\ Opp[1] \in DOMAIN level /\ Opp[1] \in ToSet(Opp)
  BY MatchedLevel DEF QInv
<1>2. Opp = levels[Opposite(ord[inc].side)]
  BY DEF Opp
<1>3. Opp[1] \notin ToSet(levels[ord[inc].side])
  BY <1>1, <1>2, SidesOfBook DEF QInv
<1>4. RingIsQueue(level[Opp[1]])
  BY <1>1 DEF QInv, Queues
<1> QED BY <1>1, <1>2, <1>3, <1>4 DEF Side, Opposite

(* So does the choice of the best level of the other side.                 *)
LEMMA LevelTopQueue ==
    ASSUME QInv, IInv', LevelTop
    PROVE  QInv' /\ Resting' = Resting
<1>1. /\ UNCHANGED <<ord, arrived, level, levels, index, inc>>
      /\ pc = "match" /\ pc' = "fill" /\ CanTrade
  BY DEF LevelTop, bookVars
<1>2. Resting' = Resting /\ Opp' = Opp
  BY <1>1 DEF Resting, Live, is_active, Opp
<1>3. Queues' /\ Waiting' /\ Held' /\ Statuses'
  BY <1>1, <1>2 DEF QInv, Queues, Waiting, Held, Statuses, Live, is_active
<1>4. CallQueue'
  <2>1. inc = arrived /\ ord[inc].status = "NEW" /\ RoomAt(ord[inc].side, ord[inc].price)
    BY <1>1 DEF QInv, CallQueue
  <2>2. RoomAt(ord[inc].side, ord[inc].price)'
    BY <1>1, <2>1 DEF RoomAt
  <2> QED BY <1>1, <1>2, <2>1, <2>2 DEF CallQueue, CanTrade
<1> QED BY <1>2, <1>3, <1>4 DEF QInv

(* A level that is out of orders has lost only dead ones.                  *)
LEMMA LevelDryQueue ==
    ASSUME QInv, IInv', LevelDry
    PROVE  /\ QInv' /\ Resting' = Resting
           /\ \A x \in DOMAIN level : /\ level'[x].total = level[x].total
                                      /\ Queued(level'[x]) \cap Resting = Queued(level[x]) \cap Resting
<1> DEFINE p == Opp[1]
           A == Advance(level[p], Live)
<1>1. /\ UNCHANGED <<ord, arrived, levels, index, inc>>
      /\ pc = "fill" /\ pc' = "leave" /\ level' = [level EXCEPT ![p] = A]
  BY DEF LevelDry
<1>2. Opp # << >>
  BY <1>1 DEF QInv, IInv, CallOK
<1>3. /\ p \in DOMAIN level /\ RingIsQueue(level[p])
      /\ p \notin ToSet(levels[ord[inc].side])
  BY <1>1, <1>2, OwnSide
<1>4. /\ RingIsQueue(A) /\ A.total = level[p].total
      /\ Queued(A) \subseteq Queued(level[p]) /\ Queued(level[p]) \cap Live \subseteq Queued(A)
  BY <1>3, AdvanceQueue, QueuedByOps
<1> HIDE DEF A
<1>5. Resting' = Resting /\ Resting \subseteq Live
  BY <1>1 DEF Resting, Live, is_active
<1>6. Queues' /\ Waiting' /\ Held'
  BY <1>1, <1>3, <1>4, <1>5, OneRing
<1>7. Statuses'
  BY <1>1 DEF QInv, Statuses, Live, is_active
<1>8. /\ DOMAIN level' = DOMAIN level /\ level'[p] = A
      /\ \A x \in DOMAIN level : x # p => level'[x] = level[x]
  BY <1>1, <1>3 DEF QInv, IInv, TypeOK
<1>9. CallQueue'
  <2>1. inc = arrived /\ ord[inc].status = "NEW" /\ RoomAt(ord[inc].side, ord[inc].price)
    BY <1>1 DEF QInv, CallQueue
  <2>2. ord[inc].price \in ToSet(levels[ord[inc].side]) => ord[inc].price \in DOMAIN level
    BY <1>1, Taker, SidesOfBook DEF QInv
  <2>3. RoomAt(ord[inc].side, ord[inc].price)'
    BY <1>1, <1>3, <1>8, <2>1, <2>2 DEF RoomAt
  <2> QED BY <1>1, <2>1, <2>3 DEF CallQueue
<1>10. \A x \in DOMAIN level : /\ level'[x].total = level[x].total
                               /\ Queued(level'[x]) \cap Resting = Queued(level[x]) \cap Resting
  BY <1>4, <1>5, <1>8
<1> QED BY <1>5, <1>6, <1>7, <1>9, <1>10 DEF QInv

(* The maker of a fill: the oldest resting order of the best level.        *)
LEMMA Maker ==
    ASSUME QInv, FillStep
    PROVE  LET L == Advance(level[Opp[1]], Live)
               m == HeadOrder(L)
               q == FillQuantity(inc, m)
               F == FillFront(L, q, ord[m].remaining - q)
           IN  /\ Opp # << >> /\ m \in Resting /\ m # inc
               /\ m \in Queued(level[Opp[1]]) /\ ord[m].price = Opp[1]
               /\ ord[m].side = Opposite(ord[inc].side)
               /\ \A o \in Queued(level[Opp[1]]) \cap Live : o = m \/ m < o
               /\ q \in Nat /\ q > 0 /\ ord[m].remaining - q \in Nat /\ ord[inc].remaining - q \in Nat
               /\ RingIsQueue(F) /\ F.total = level[Opp[1]].total - q
               /\ Queued(F) \subseteq Queued(level[Opp[1]])
               /\ (Queued(level[Opp[1]]) \cap Live) \ {m} \subseteq Queued(F)
               /\ m \in Queued(F) <=> ord[m].remaining - q > 0
<1> DEFINE p == Opp[1]
           L == Advance(level[p], Live)
           m == HeadOrder(L)
           q == FillQuantity(inc, m)
           F == FillFront(L, q, ord[m].remaining - q)
<1>1. pc = "fill" /\ ~Exhausted(L)
  BY DEF FillStep
<1>2. Opp # << >>
  BY <1>1 DEF QInv, IInv, CallOK
<1>3. p \in DOMAIN level /\ RingIsQueue(level[p]) /\ p \in ToSet(levels[Opposite(ord[inc].side)])
  BY <1>1, <1>2, OwnSide
<1>4. /\ RingIsQueue(L) /\ L.total = level[p].total /\ m \in Live
      /\ Queued(L) \subseteq Queued(level[p]) /\ Queued(level[p]) \cap Live \subseteq Queued(L)
  BY <1>1, <1>3, AdvanceQueue, QueuedByOps
<1> HIDE DEF L
<1>5. m \in Queued(L) /\ \A o \in Queued(L) : o = m \/ m < o
  BY <1>1, <1>4, QueuedByOps
<1>6. m \in Queued(level[p])
  BY <1>4, <1>5
<1>7. /\ m \in Orders /\ ord[m].price = p /\ ord[m].side \in Side
      /\ p \in ToSet(levels[ord[m].side])
  BY <1>3, <1>6, QueuedOrder
<1>8. inc \in Orders /\ ord[inc].side \in Side /\ m # inc /\ ord[inc].remaining \in Nat
      /\ ord[inc].remaining > 0
  BY <1>1, <1>3, <1>6, Taker DEF QInv, CallQueue
<1>9. ord[m].side = Opposite(ord[inc].side)
  <2>1. p \notin ToSet(levels[ord[inc].side])
    BY <1>1, <1>2, OwnSide
  <2>2. ord[m].side # ord[inc].side
    BY <1>7, <2>1
  <2> QED BY <1>7, <1>8, <2>2 DEF Side, Opposite
<1>10. m \in Resting
  BY <1>4, <1>8 DEF Resting
<1>11. ord[m].remaining \in Nat /\ ord[m].remaining > 0
  BY <1>4, LiveOrder
<1> HIDE DEF m
<1>12. /\ q \in Nat /\ q > 0 /\ ord[m].remaining - q \in Nat /\ ord[inc].remaining - q \in Nat
  BY <1>8, <1>11 DEF FillQuantity
<1> HIDE DEF q
<1>13. /\ RingIsQueue(F) /\ F.total = L.total - q
       /\ Queued(F) = IF ord[m].remaining - q > 0 THEN Queued(L) ELSE Queued(L) \ {m}
  <2> DEFINE left == ord[m].remaining - q
  <2>1. F = FillFront(L, q, left) /\ left \in Nat /\ m = HeadOrder(L)
    BY <1>12 DEF m
  <2> HIDE DEF left, F
  <2>2. RingIsQueue(F) /\ F.total = L.total - q
    BY <1>1, <1>4, <1>12, <2>1, FillFrontQueue
  <2>3. Queued(F) = IF left > 0 THEN Queued(L) ELSE Queued(L) \ {m}
    BY <1>1, <1>4, <1>12, <2>1, QueuedByOps
  <2> QED BY <2>2, <2>3 DEF left
<1> HIDE DEF F
<1> QED BY <1>2, <1>4, <1>5, <1>6, <1>7, <1>8, <1>9, <1>10, <1>12, <1>13 DEF L, m, q, F

(* A fill changes the two quantities of an order.                          *)
LEMMA ExecutedFields ==
    ASSUME NEW r \in Order, NEW q
    PROVE  /\ Executed(r, q).remaining = r.remaining - q
           /\ Executed(r, q).filled = r.filled + q
           /\ Executed(r, q).side = r.side /\ Executed(r, q).price = r.price
           /\ Executed(r, q).status = r.status
BY DEF Executed, Order

(* A fill takes the same quantity from the taker and from the maker, and   *)
(* the maker out of the book when it has nothing left.                     *)
LEMMA FillStepResting ==
    ASSUME QInv, FillStep
    PROVE  LET m == HeadOrder(Advance(level[Opp[1]], Live))
               q == FillQuantity(inc, m)
           IN  /\ m \in Orders /\ inc \in Orders /\ m # inc
               /\ ord'[m] = Executed(ord[m], q) /\ ord'[inc] = Executed(ord[inc], q)
               /\ \A x \in Orders : x # m /\ x # inc => ord'[x] = ord[x]
               /\ \A x \in Orders : /\ ord'[x].price = ord[x].price /\ ord'[x].side = ord[x].side
                                    /\ ord'[x].status = ord[x].status
               /\ Resting' = IF ord[m].remaining - q > 0 THEN Resting ELSE Resting \ {m}
<1> DEFINE m == HeadOrder(Advance(level[Opp[1]], Live))
           q == FillQuantity(inc, m)
<1>1. /\ pc = "fill" /\ pc' \in {"leave", "fill"} /\ inc' = inc
      /\ ord' = [ord EXCEPT ![m] = Executed(@, q), ![inc] = Executed(@, q)]
  BY DEF FillStep
<1>2. m \in Resting /\ m # inc /\ q \in Nat /\ q > 0 /\ ord[m].remaining - q \in Nat
  BY Maker
<1> HIDE DEF m, q
<1>3. /\ m \in Orders /\ ord[m] \in Order /\ m \in Live /\ ord[m].remaining \in Nat
      /\ is_active(m)
  BY <1>2, RestingOrder, LiveOrder
<1>4. inc \in Orders /\ ord[inc] \in Order /\ inc \notin Resting
  BY <1>1, Taker
<1>5. ord \in [Orders -> Order]
  BY DEF QInv, IInv, TypeOK
<1>6. /\ ord'[m] = Executed(ord[m], q) /\ ord'[inc] = Executed(ord[inc], q)
      /\ \A x \in Orders : x # m /\ x # inc => ord'[x] = ord[x]
  BY <1>1, <1>2, <1>3, <1>4, <1>5
<1>7. \A x \in Orders : /\ ord'[x].price = ord[x].price /\ ord'[x].side = ord[x].side
                        /\ ord'[x].status = ord[x].status
  BY <1>3, <1>4, <1>6, ExecutedFields
<1>8. ord'[m].remaining = ord[m].remaining - q
  BY <1>3, <1>6, ExecutedFields
<1>9. Resting' = IF ord[m].remaining - q > 0 THEN Resting ELSE Resting \ {m}
  <2>1. Resting = Live \ {inc} /\ Resting' = Live' \ {inc}
    BY <1>1 DEF Resting
  <2>2. \A x \in Orders : x # m /\ x # inc => (x \in Live' <=> x \in Live)
    BY <1>6 DEF Live, is_active
  <2>3. m \in Live' <=> ord[m].remaining - q > 0
    BY <1>3, <1>7, <1>8 DEF Live, is_active
  <2>4. Live \subseteq Orders /\ Live' \subseteq Orders
    BY DEF Live
  <2> QED BY <1>2, <1>3, <2>1, <2>2, <2>3, <2>4
<1> QED BY <1>2, <1>3, <1>4, <1>6, <1>7, <1>9 DEF m, q

(* A fill takes its quantity from the head of one queue, and the head out  *)
(* of the queue if nothing is left of it.                                  *)
LEMMA FillStepQueue ==
    ASSUME QInv, IInv', FillStep
    PROVE  LET m == HeadOrder(Advance(level[Opp[1]], Live))
               q == FillQuantity(inc, m)
           IN  /\ QInv'
               /\ \A x \in DOMAIN level :
                     /\ Queued(level'[x]) \cap Resting' = Queued(level[x]) \cap Resting'
                     /\ level'[x].total = IF x = Opp[1] THEN level[x].total - q ELSE level[x].total
<1> DEFINE p == Opp[1]
           L == Advance(level[p], Live)
           m == HeadOrder(L)
           q == FillQuantity(inc, m)
           F == FillFront(L, q, ord[m].remaining - q)
<1>1. /\ UNCHANGED <<arrived, levels, index, inc>> /\ pc = "fill"
      /\ level' = [level EXCEPT ![p] = F]
      /\ pc' = IF ord[inc].remaining = q THEN "leave" ELSE "fill"
  BY DEF FillStep
<1>2. /\ Opp # << >> /\ m \in Resting /\ m # inc
      /\ m \in Queued(level[p]) /\ ord[m].price = p
      /\ q \in Nat /\ ord[m].remaining - q \in Nat /\ ord[inc].remaining - q \in Nat
      /\ RingIsQueue(F) /\ F.total = level[p].total - q
      /\ Queued(F) \subseteq Queued(level[p])
      /\ (Queued(level[p]) \cap Live) \ {m} \subseteq Queued(F)
      /\ m \in Queued(F) <=> ord[m].remaining - q > 0
  BY Maker
<1>3. /\ m \in Orders /\ inc \in Orders
      /\ ord'[m] = Executed(ord[m], q) /\ ord'[inc] = Executed(ord[inc], q)
      /\ \A x \in Orders : x # m /\ x # inc => ord'[x] = ord[x]
      /\ \A x \in Orders : /\ ord'[x].price = ord[x].price /\ ord'[x].side = ord[x].side
                           /\ ord'[x].status = ord[x].status
      /\ Resting' = IF ord[m].remaining - q > 0 THEN Resting ELSE Resting \ {m}
  BY FillStepResting
<1> HIDE DEF L, m, q, F
<1>4. p \in DOMAIN level /\ p \notin ToSet(levels[ord[inc].side])
  BY <1>1, <1>2, OwnSide
<1>5. Resting' \subseteq Resting /\ Resting \subseteq Live
  BY <1>3 DEF Resting
<1>6. Queued(level[p]) \cap Resting' \subseteq Queued(F)
  BY <1>2, <1>3, <1>5
<1>7. \A x \in Resting \ Resting' : x \notin Queued(F) /\ ord[x].price = p
  BY <1>2, <1>3
<1>8. Queues' /\ Waiting' /\ Held'
  BY <1>1, <1>2, <1>3, <1>4, <1>5, <1>6, <1>7, OneRing
<1>9. /\ DOMAIN level' = DOMAIN level /\ level'[p] = F
      /\ \A x \in DOMAIN level : x # p => level'[x] = level[x]
  BY <1>1, <1>4 DEF QInv, IInv, TypeOK
<1>10. Statuses'
  <2>1. \A x \in Orders : x > arrived => x # m /\ x # inc
    <3>1. m <= arrived /\ inc <= arrived /\ m \in Nat /\ inc \in Nat /\ arrived \in Nat
      BY <1>1, <1>2, <1>4, Taker, QueuedOrder
    <3> QED BY <3>1, OrdersAssumption
  <2>2. \A x \in index : is_active(x)'
    BY <1>3 DEF QInv, Statuses, is_active, IInv, TypeOK
  <2>3. \A x \in Orders : x > arrived => x \notin Live'
    BY <1>3, <2>1 DEF QInv, Statuses, Live, is_active
  <2> QED BY <1>1, <2>2, <2>3 DEF Statuses
<1>11. CallQueue'
  <2>1. /\ inc = arrived /\ ord[inc].status = "NEW" /\ RoomAt(ord[inc].side, ord[inc].price)
        /\ ~Before(ord[inc].side, p, ord[inc].price)
    BY <1>1 DEF QInv, CallQueue
  <2>2. ord[inc].price \in ToSet(levels[ord[inc].side]) => ord[inc].price \in DOMAIN level
    BY <1>1, Taker, SidesOfBook DEF QInv
  <2>3. ord'[inc].price = ord[inc].price /\ ord'[inc].side = ord[inc].side
        /\ ord'[inc].status = "NEW" /\ ord'[inc].remaining = ord[inc].remaining - q
    BY <1>1, <1>3, <2>1, Taker, ExecutedFields
  <2>4. RoomAt(ord[inc].side, ord[inc].price)'
    BY <1>1, <1>4, <1>9, <2>1, <2>2, <2>3 DEF RoomAt
  <2>5. Opp' = Opp
    BY <1>1, <2>3 DEF Opp
  <2>6. pc' = "fill" => ord'[inc].remaining > 0
    <3>1. ord[inc].remaining \in Nat
      BY <1>1, Taker
    <3> QED BY <1>1, <1>2, <2>3, <3>1
  <2> QED BY <1>1, <2>1, <2>3, <2>4, <2>5, <2>6 DEF CallQueue
<1>12. \A x \in DOMAIN level :
          /\ Queued(level'[x]) \cap Resting' = Queued(level[x]) \cap Resting'
          /\ level'[x].total = IF x = p THEN level[x].total - q ELSE level[x].total
  BY <1>2, <1>6, <1>9
<1> QED BY <1>8, <1>10, <1>11, <1>12 DEF QInv, L, m, q

(* The level that match drops holds nothing.                               *)
LEMMA LevelDoneQueue ==
    ASSUME QInv, IInv', LevelDone
    PROVE  /\ QInv' /\ Resting' = Resting /\ DOMAIN level' \subseteq DOMAIN level
           /\ \A x \in DOMAIN level' : level'[x] = level[x]
           /\ \A x \in DOMAIN level \ DOMAIN level' : x = Opp[1] /\ Queued(level[x]) = {}
<1> DEFINE p == Opp[1]
           s == Opposite(ord[inc].side)
<1>1. UNCHANGED <<ord, arrived, index, inc>> /\ pc = "leave" /\ pc' = "match"
  BY DEF LevelDone
<1>2. Opp # << >>
  BY <1>1 DEF QInv, IInv, CallOK
<1>3. /\ p \in DOMAIN level /\ RingIsQueue(level[p])
      /\ p \notin ToSet(levels[ord[inc].side]) /\ s # ord[inc].side
      /\ ord[inc].side \in Side
  BY <1>1, <1>2, OwnSide, Taker
<1>4. Resting' = Resting
  BY <1>1 DEF Resting, Live, is_active
<1>5. /\ DOMAIN level' \subseteq DOMAIN level
      /\ \A x \in DOMAIN level' : level'[x] = level[x]
      /\ \A x \in DOMAIN level \ DOMAIN level' : x = p /\ Queued(level[x]) = {}
      /\ levels'[ord[inc].side] = levels[ord[inc].side]
  <2>1. CASE empty(level[p])
    <3>1. level' = Erase(level, p) /\ levels' = [levels EXCEPT ![s] = Tail(@)]
      BY <2>1 DEF LevelDone
    <3>2. Queued(level[p]) = {}
      BY <1>3, <2>1, QueuedByOps DEF empty
    <3> QED BY <1>3, <3>1, <3>2 DEF Erase, QInv, IInv, TypeOK
  <2>2. CASE ~empty(level[p])
    BY <2>2 DEF LevelDone
  <2> QED BY <2>1, <2>2
<1>6. Queues'
  BY <1>5 DEF QInv, Queues
<1>7. Waiting'
  BY <1>1, <1>4, <1>5 DEF QInv, Waiting
<1>8. Held'
  BY <1>1, <1>4, <1>5 DEF QInv, Held
<1>9. Statuses'
  BY <1>1 DEF QInv, Statuses, Live, is_active
<1>10. CallQueue'
  <2>1. inc = arrived /\ ord[inc].status = "NEW" /\ RoomAt(ord[inc].side, ord[inc].price)
    BY <1>1 DEF QInv, CallQueue
  <2>2. ord[inc].price \in ToSet(levels[ord[inc].side]) => ord[inc].price \in DOMAIN level
    BY <1>3, SidesOfBook DEF QInv
  <2>3. ord[inc].price \in ToSet(levels[ord[inc].side]) => ord[inc].price \in DOMAIN level'
    BY <1>3, <1>5, <2>2
  <2>4. RoomAt(ord[inc].side, ord[inc].price)'
    BY <1>1, <1>5, <2>1, <2>3 DEF RoomAt
  <2> QED BY <1>1, <2>1, <2>4 DEF CallQueue
<1> QED BY <1>4, <1>5, <1>6, <1>7, <1>8, <1>9, <1>10 DEF QInv

(* match leaves its loop only when nothing on the other side is in reach.  *)
LEMMA OutOfReach ==
    ASSUME QInv, MatchEnd, ord[inc].remaining > 0
    PROVE  NonCrossing(ord[inc].side, ord[inc].price)
<1> DEFINE t == Opposite(ord[inc].side)
<1>1. pc = "match" /\ ~CanTrade
  BY DEF MatchEnd
<1>2. /\ ord[inc].side \in Side /\ ord[inc].price \in Prices /\ t \in Side
      /\ Opp = levels[t] /\ Opp \in Seq(Prices) /\ SortedSeq(t, Opp)
  BY <1>1, MatchedLevel DEF Opp, QInv
<1>3. SUFFICES ASSUME NEW x \in ToSet(levels[t]) PROVE Before(ord[inc].side, x, ord[inc].price)
  BY DEF NonCrossing
<1>4. Opp # << >> /\ (x = Opp[1] \/ Before(t, Opp[1], x))
  BY <1>2, FrontIsBest
<1>5. Before(ord[inc].side, Opp[1], ord[inc].price)
  BY <1>1, <1>4 DEF CanTrade
<1>6. x \in Prices /\ Opp[1] \in Prices
  BY <1>2, <1>4, FrontPrice, SidesOfBook DEF QInv, IInv, TypeOK
<1>7. Before(t, Opp[1], x) => Before(ord[inc].side, x, Opp[1])
  BY <1>2 DEF Before, Opposite, Side
<1> QED BY <1>2, <1>4, <1>5, <1>6, <1>7, BeforeOrder

(* The end of match: what is left of the order rests.                      *)
LEMMA MatchEndResting ==
    ASSUME QInv, MatchEnd
    PROVE  /\ ord' = ord /\ inc \notin Resting /\ pc = "match" /\ pc' = "idle"
           /\ Resting' = IF ord[inc].remaining > 0 THEN Resting \cup {inc} ELSE Resting
<1>1. ord' = ord /\ pc = "match" /\ pc' = "idle"
  BY DEF MatchEnd
<1>2. inc \in Orders /\ ord[inc].status = "NEW" /\ inc \notin Resting
  BY <1>1, Taker
<1>3. inc \in Live <=> ord[inc].remaining > 0
  BY <1>2 DEF Live, is_active
<1>4. Live' = Live /\ Resting' = Live' /\ Resting = Live \ {inc}
  BY <1>1 DEF Resting, Live, is_active
<1> QED BY <1>1, <1>2, <1>3, <1>4

(* What is left of the taker rests at the end of its level's queue.        *)
LEMMA MatchEndQueue ==
    ASSUME QInv, RingsHaveRoom, IInv', MatchEnd
    PROVE  LET r == ord[inc]
           IN  /\ QInv'
               /\ r.remaining > 0 =>
                    /\ DOMAIN level' = DOMAIN level \cup {r.price}
                    /\ \A x \in DOMAIN level : x # r.price => level'[x] = level[x]
                    /\ Queued(level'[r.price]) =
                          (IF r.price \in DOMAIN level THEN Queued(level[r.price]) ELSE {}) \cup {inc}
                    /\ level'[r.price].total =
                          (IF r.price \in DOMAIN level THEN level[r.price].total ELSE 0) + r.remaining
                    /\ depth' = [depth EXCEPT ![r.side] = @ + r.remaining]
               /\ ~(r.remaining > 0) => level' = level /\ depth' = depth
<1> DEFINE r == ord[inc]
<1>1. /\ UNCHANGED <<ord, arrived>> /\ pc = "match" /\ pc' = "idle"
      /\ Resting' = IF r.remaining > 0 THEN Resting \cup {inc} ELSE Resting
  BY MatchEndResting DEF MatchEnd
<1>2. /\ inc \in Orders /\ r \in Order /\ r.price \in Prices
      /\ \A p \in DOMAIN level : \A x \in Queued(level[p]) : x < inc
  BY <1>1, Taker
<1>3. CallQueue'
  BY <1>1 DEF CallQueue
<1>4. CASE r.remaining > 0
  <2>1. RestOrder(inc, r) /\ NonCrossing(r.side, r.price) /\ RoomAt(r.side, r.price)
    BY <1>1, <1>4, OutOfReach DEF MatchEnd, QInv, CallQueue
  <2> HIDE DEF r
  <2>2. /\ DOMAIN level' = DOMAIN level \cup {r.price}
        /\ \A x \in DOMAIN level : x # r.price => level'[x] = level[x]
        /\ Queued(level'[r.price]) =
              (IF r.price \in DOMAIN level THEN Queued(level[r.price]) ELSE {}) \cup {inc}
        /\ level'[r.price].total =
              (IF r.price \in DOMAIN level THEN level[r.price].total ELSE 0) + r.remaining
        /\ index' = index \cup {inc}
        /\ depth' = [depth EXCEPT ![r.side] = @ + r.remaining]
        /\ Queues'
    BY <1>2, <1>4, <2>1, RestOrderQueue
  <2>3. Waiting'
    <3> SUFFICES ASSUME NEW x \in DOMAIN level', NEW y \in Queued(level'[x])
                 PROVE  y \in Resting' \/ ord[y].status = "CANCELLED"
      BY <1>1 DEF Waiting
    <3>1. CASE y = inc
      BY <1>1, <1>4, <3>1
    <3>2. CASE y # inc
      <4>1. x \in DOMAIN level /\ y \in Queued(level[x])
        BY <2>2, <3>2
      <4> QED BY <1>1, <4>1 DEF QInv, Waiting
    <3> QED BY <3>1, <3>2
  <2>4. Held'
    <3> SUFFICES ASSUME NEW x \in Resting'
                 PROVE  /\ ord[x].price \in DOMAIN level'
                        /\ x \in Queued(level'[ord[x].price]) /\ x \in index'
      BY <1>1 DEF Held
    <3>1. CASE x = inc
      BY <2>2, <3>1 DEF r
    <3>2. CASE x # inc
      <4>1. x \in Resting
        BY <1>1, <3>2
      <4>2. ord[x].price \in DOMAIN level /\ x \in Queued(level[ord[x].price]) /\ x \in index
        BY <4>1, RestingOrder
      <4> QED BY <2>2, <4>2
    <3> QED BY <3>1, <3>2
  <2>5. Statuses'
    <3>1. ord[inc].status = "NEW"
      BY <1>1, Taker
    <3> QED BY <1>1, <2>2, <3>1 DEF QInv, Statuses, Live, is_active
  <2> QED BY <1>3, <1>4, <2>2, <2>3, <2>4, <2>5 DEF QInv, r
<1>5. CASE ~(r.remaining > 0)
  <2>1. UNCHANGED <<level, levels, index, depth>>
    BY <1>5 DEF MatchEnd
  <2>2. Resting' = Resting
    BY <1>1, <1>5
  <2>3. Queues' /\ Held' /\ Statuses'
    BY <1>1, <2>1, <2>2 DEF QInv, Queues, Held, Statuses, Live, is_active
  <2>4. Waiting'
    BY <1>1, <2>1, <2>2 DEF QInv, Waiting
  <2> QED BY <1>3, <1>5, <2>1, <2>3, <2>4 DEF QInv
<1> QED BY <1>4, <1>5

(* cancel_order: the order no longer rests, whether or not it did.         *)
LEMMA CancelOrderResting ==
    ASSUME QInv, NEW o \in Orders, CancelOrder(o)
    PROVE  /\ pc = "idle" /\ pc' = "idle" /\ inc' = inc /\ arrived' = arrived
           /\ Resting' = Resting \ {o}
           /\ \A x \in Orders : x # o => ord'[x] = ord[x]
           /\ \A x \in Orders : /\ ord'[x].price = ord[x].price /\ ord'[x].side = ord[x].side
                                /\ ord'[x].remaining = ord[x].remaining
           /\ is_active(o)
           /\ o \in Live <=> ord[o].remaining > 0
           /\ ord[o].price \in DOMAIN level => ord'[o].status = "CANCELLED"
           /\ ord[o].price \notin DOMAIN level => ord' = ord
<1>1. /\ pc = "idle" /\ pc' = "idle" /\ inc' = inc /\ arrived' = arrived /\ o \in index
  BY DEF CancelOrder, callVars
<1>2. is_active(o) /\ (o \in Live <=> ord[o].remaining > 0)
  BY <1>1 DEF QInv, Statuses, Live
<1>3. Resting = Live /\ Resting' = Live'
  BY <1>1 DEF Resting
<1>4. CASE ord[o].price \in DOMAIN level
  <2>1. ord' = [ord EXCEPT ![o].status = "CANCELLED"]
    BY <1>4 DEF CancelOrder
  <2> DEFINE c == [ord[o] EXCEPT !.status = "CANCELLED"]
  <2>2. ord[o] \in Order /\ ord \in [Orders -> Order]
    BY DEF QInv, IInv, TypeOK
  <2>3. /\ c.status = "CANCELLED" /\ c.price = ord[o].price /\ c.side = ord[o].side
        /\ c.remaining = ord[o].remaining
    BY <2>2 DEF Order
  <2>4. ord'[o] = c /\ \A x \in Orders : x # o => ord'[x] = ord[x]
    BY <2>1, <2>2
  <2> HIDE DEF c
  <2>5. \A x \in Orders : /\ ord'[x].price = ord[x].price /\ ord'[x].side = ord[x].side
                          /\ ord'[x].remaining = ord[x].remaining
    BY <2>3, <2>4
  <2>6. Live' = Live \ {o}
    BY <2>3, <2>4 DEF Live, is_active
  <2> QED BY <1>1, <1>2, <1>3, <1>4, <2>3, <2>4, <2>5, <2>6
<1>5. CASE ord[o].price \notin DOMAIN level
  <2>1. ord' = ord
    BY <1>5 DEF CancelOrder
  <2>2. o \notin Resting
    BY <1>5 DEF QInv, Held
  <2>3. Live' = Live
    BY <2>1 DEF Live, is_active
  <2> QED BY <1>1, <1>2, <1>3, <1>5, <2>1, <2>2, <2>3
<1> QED BY <1>4, <1>5

(* A cancel takes the order out of the totals at once, and out of the      *)
(* rings no other order that rests.                                        *)
LEMMA CancelOrderQueue ==
    ASSUME QInv, IInv', NEW o \in Orders, CancelOrder(o)
    PROVE  LET p == ord[o].price
           IN  /\ QInv' /\ DOMAIN level' \subseteq DOMAIN level
               /\ \A x \in DOMAIN level' :
                     /\ Queued(level'[x]) \cap Resting' = Queued(level[x]) \cap Resting'
                     /\ level'[x].total = IF x = p THEN level[x].total - ord[o].remaining
                                          ELSE level[x].total
               /\ depth' = IF p \in DOMAIN level
                           THEN [depth EXCEPT ![ord[o].side] = @ - ord[o].remaining] ELSE depth
<1> DEFINE p == ord[o].price
           R == RemoveOrder(level[p], o, ord[o].remaining, Live)
<1>1. /\ pc = "idle" /\ pc' = "idle" /\ arrived' = arrived
      /\ Resting' = Resting \ {o}
      /\ \A x \in Orders : x # o => ord'[x] = ord[x]
      /\ \A x \in Orders : /\ ord'[x].price = ord[x].price /\ ord'[x].side = ord[x].side
                           /\ ord'[x].remaining = ord[x].remaining
      /\ is_active(o)
      /\ p \in DOMAIN level => ord'[o].status = "CANCELLED"
      /\ p \notin DOMAIN level => ord' = ord
  BY CancelOrderResting
<1>2. /\ o \in index /\ index' = index \ {o}
      /\ p \notin DOMAIN level => UNCHANGED <<level, levels, depth>>
      /\ p \in DOMAIN level =>
            /\ depth' = [depth EXCEPT ![ord[o].side] = @ - ord[o].remaining]
            /\ level' = IF empty(R) THEN Erase(level, p) ELSE [level EXCEPT ![p] = R]
  BY <1>1 DEF CancelOrder
<1>3. Resting = Live /\ ord[o].remaining \in Nat
  BY <1>1 DEF Resting, QInv, IInv, TypeOK, Order
<1>4. Statuses'
  <2>1. \A x \in index' : is_active(x)'
    BY <1>1, <1>2 DEF QInv, Statuses, IInv, TypeOK, is_active
  <2>2. \A x \in Orders : x > arrived' => x \notin Live'
    <3>1. Live' \subseteq Live
      BY <1>1 DEF Live, is_active
    <3> QED BY <1>1, <3>1 DEF QInv, Statuses
  <2> QED BY <2>1, <2>2 DEF Statuses
<1>5. CallQueue'
  BY <1>1 DEF CallQueue
<1>6. CASE p \in DOMAIN level
  <2>1. RingIsQueue(level[p])
    BY <1>6 DEF QInv, Queues
  <2>2. /\ RingIsQueue(R) /\ R.total = level[p].total - ord[o].remaining
        /\ Queued(R) \subseteq Queued(level[p])
        /\ Queued(level[p]) \cap Resting' \subseteq Queued(R)
        /\ empty(R) => Queued(R) = {}
    <3> DEFINE L == level[p]
               r == ord[o].remaining
    <3>0. R = RemoveOrder(L, o, r, Live) /\ RingIsQueue(L) /\ r \in Nat
      BY <1>3, <2>1
    <3> HIDE DEF L, r, R
    <3>1. /\ RingIsQueue(R) /\ R.total = L.total - r
      <4>1. L.total \in Int
        BY <3>0, QueueParts
      <4>2. RingIsQueue(R)
        BY <3>0, RemoveOrderQueue
      <4>3. R.total = L.total - r
        BY <3>0, <4>1, RemoveOrderQueue
      <4> QED BY <4>2, <4>3
    <3>2. /\ Queued(R) \subseteq Queued(L)
          /\ Queued(L) \cap (Live \ {o}) \subseteq Queued(R)
      BY <3>0, QueuedByOps
    <3>3. empty(R) => Queued(R) = {}
      BY <3>1, QueuedByOps DEF empty
    <3> QED BY <1>1, <1>3, <3>1, <3>2, <3>3 DEF L, r
  <2> HIDE DEF R
  <2>3. /\ DOMAIN level' = IF empty(R) THEN DOMAIN level \ {p} ELSE DOMAIN level
        /\ p \in DOMAIN level' => level'[p] = R
        /\ \A x \in DOMAIN level' : x # p => level'[x] = level[x]
    BY <1>2, <1>6 DEF Erase, QInv, IInv, TypeOK
  <2>4. Queues'
    BY <2>2, <2>3 DEF QInv, Queues
  <2>5. Waiting'
    <3> SUFFICES ASSUME NEW x \in DOMAIN level', NEW y \in Queued(level'[x])
                 PROVE  y \in Resting' \/ ord'[y].status = "CANCELLED"
      BY <1>1 DEF Waiting
    <3>1. x \in DOMAIN level /\ y \in Queued(level[x])
      BY <2>2, <2>3
    <3>2. y \in Orders
      BY <3>1, QueuedOrder
    <3> QED BY <1>1, <1>6, <3>1, <3>2 DEF QInv, Waiting
  <2>6. Held'
    <3> SUFFICES ASSUME NEW x \in Resting'
                 PROVE  /\ ord'[x].price \in DOMAIN level'
                        /\ x \in Queued(level'[ord'[x].price]) /\ x \in index'
      BY DEF Held
    <3>1. x \in Resting /\ x # o
      BY <1>1
    <3>2. /\ ord[x].price \in DOMAIN level /\ x \in Queued(level[ord[x].price]) /\ x \in index
          /\ x \in Orders
      BY <3>1, RestingOrder DEF Live
    <3>3. ord'[x] = ord[x]
      BY <1>1, <3>1, <3>2
    <3>4. ord[x].price = p => x \in Queued(R)
      BY <2>2, <3>2
    <3>5. ord[x].price \in DOMAIN level'
      BY <2>2, <2>3, <3>2, <3>4
    <3> QED BY <1>2, <2>3, <3>1, <3>2, <3>3, <3>4, <3>5
  <2>7. \A x \in DOMAIN level' :
           /\ Queued(level'[x]) \cap Resting' = Queued(level[x]) \cap Resting'
           /\ level'[x].total = IF x = p THEN level[x].total - ord[o].remaining
                                ELSE level[x].total
    BY <2>2, <2>3
  <2>8. DOMAIN level' \subseteq DOMAIN level
    BY <2>3
  <2> QED BY <1>2, <1>4, <1>5, <1>6, <2>4, <2>5, <2>6, <2>7, <2>8 DEF QInv
<1>7. CASE p \notin DOMAIN level
  <2>1. UNCHANGED <<level, levels, depth, ord>>
    BY <1>1, <1>2, <1>7
  <2>2. o \notin Resting
    BY <1>7 DEF QInv, Held
  <2>3. Resting' = Resting
    BY <1>1, <2>2
  <2>4. Queues'
    BY <2>1 DEF QInv, Queues
  <2>5. Waiting'
    BY <1>1, <2>1, <2>3 DEF QInv, Waiting
  <2>6. Held'
    BY <1>2, <2>1, <2>2, <2>3 DEF QInv, Held
  <2>7. \A x \in DOMAIN level : x # p
    BY <1>7
  <2> QED BY <1>4, <1>5, <1>7, <2>1, <2>4, <2>5, <2>6, <2>7 DEF QInv
<1> HIDE DEF p
<1> QED BY <1>6, <1>7 DEF p

(* set_market_price and stuttering change nothing that the rings hold.     *)
LEMMA QuietQueue ==
    ASSUME QInv, IInv',
           UNCHANGED <<ord, arrived, level, levels, index, depth, pc, inc, before>>
    PROVE  QInv' /\ Resting' = Resting
<1>1. Resting' = Resting /\ Opp' = Opp
  BY DEF Resting, Live, is_active, Opp
<1>2. Queues' /\ Held' /\ Statuses'
  BY <1>1 DEF QInv, Queues, Held, Statuses, Live, is_active
<1>3. Waiting'
  BY <1>1 DEF QInv, Waiting
<1>4. CallQueue'
  BY <1>1 DEF QInv, CallQueue, RoomAt
<1> QED BY <1>1, <1>2, <1>3, <1>4 DEF QInv

(* No step of any call breaks the invariant.                               *)
LEMMA NextQueue ==
    ASSUME QInv, RingsHaveRoom, [Next]_vars
    PROVE  QInv'
<1>0. IInv'
  BY NextInv DEF QInv
<1>1. ASSUME NEW o \in Orders, NEW s \in Side, NEW p \in Prices, NEW q \in Quantities,
             AddOrder(o, s, p, q)
      PROVE  QInv'
  BY <1>0, <1>1, AddOrderQueue
<1>2. ASSUME NEW o \in Orders, NEW s \in Side, NEW p \in Prices, NEW q \in Quantities,
             MatchBegin(o, s, p, q)
      PROVE  QInv'
  BY <1>0, <1>2, MatchBeginQueue
<1>3. CASE LevelTop
  BY <1>0, <1>3, LevelTopQueue
<1>4. CASE LevelDry
  BY <1>0, <1>4, LevelDryQueue
<1>5. CASE FillStep
  BY <1>0, <1>5, FillStepQueue
<1>6. CASE LevelDone
  BY <1>0, <1>6, LevelDoneQueue
<1>7. CASE MatchEnd
  BY <1>0, <1>7, MatchEndQueue
<1>8. ASSUME NEW o \in Orders, CancelOrder(o) PROVE QInv'
  BY <1>0, <1>8, CancelOrderQueue
<1>9. ASSUME NEW quote \in Quotes, SetMarketPrice(quote) PROVE QInv'
  BY <1>0, <1>9, QuietQueue DEF SetMarketPrice, callVars
<1>10. CASE UNCHANGED vars
  BY <1>0, <1>10, QuietQueue DEF vars, bookVars, callVars
<1> QED BY <1>1, <1>2, <1>3, <1>4, <1>5, <1>6, <1>7, <1>8, <1>9, <1>10 DEF Next, MatchStep

(* The rings are queues of what is waiting, and every order that rests is  *)
(* in the queue of its price, as long as the rings keep a slot free.       *)
THEOREM QueueInvariance == ASSUME RingsHaveRoom PROVE Spec => []QInv
<1>1. QInv /\ [Next]_vars => QInv'
  BY NextQueue
<1> QED BY InitQueue, <1>1, PTL DEF Spec

(* An order that rests with quantity left is once in the ring of its own   *)
(* price, on its own side, and cancel_order can find it.                   *)
THEOREM RingsLoseNoOrder == ASSUME RingsHaveRoom PROVE Spec => []NoOrderLost
<1>1. ASSUME QInv, NEW o \in Resting
      PROVE  LET p == ord[o].price
             IN  /\ p \in ToSet(levels[ord[o].side]) /\ o \in index
                 /\ Cardinality({i \in Slots : level[p].buffer[i] = o}) = 1
                 /\ o \in Queued(level[p])
  <2> DEFINE L == level[ord[o].price]
             places == {i \in Slots : L.buffer[i] = o}
  <2>1. /\ o \in index /\ o \in Queued(L) /\ ord[o].price \in ToSet(levels[ord[o].side])
        /\ RingIsQueue(L)
    BY <1>1, RestingOrder DEF QInv, Queues
  <2> HIDE DEF L
  <2>2. PICK i \in Slots : L.buffer[i] = o /\ o # NoOrder
    BY <2>1, QueuedInSlots
  <2>3. places = {i}
    BY <2>1, <2>2, QueueOnce
  <2> HIDE DEF places
  <2>4. Cardinality(places) = 1
    BY <2>3, FS_Singleton
  <2> QED BY <2>1, <2>4 DEF L, places
<1>2. QInv => NoOrderLost
  BY <1>1 DEF NoOrderLost
<1> QED BY <1>2, QueueInvariance, PTL

(* Between calls, a level without anything to trade has a cancelled order  *)
(* in its ring: fills leave no such level behind.                          *)
THEOREM GhostLevelsHoldCancels == ASSUME RingsHaveRoom PROVE Spec => []GhostLevelsOnlyByCancel
<1>1. ASSUME QInv, pc = "idle", NEW p \in DOMAIN level
      PROVE  \E o \in Queued(level[p]) : o \in Resting \/ ord[o].status = "CANCELLED"
  <2>1. RingIsQueue(level[p]) /\ level[p].size # 0
    BY <1>1 DEF QInv, Queues, IInv, NonEmpty
  <2>2. ~Exhausted(level[p])
    BY <2>1, QueueParts DEF Exhausted
  <2>3. HeadOrder(level[p]) \in Queued(level[p])
    BY <2>1, <2>2, QueuedByOps
  <2>4. \A o \in Queued(level[p]) : o \in Resting \/ ord[o].status = "CANCELLED"
    BY <1>1 DEF QInv, Waiting
  <2> QED BY <2>3, <2>4
<1>2. QInv => GhostLevelsOnlyByCancel
  BY <1>1 DEF GhostLevelsOnlyByCancel
<1> QED BY <1>2, QueueInvariance, PTL

-----------------------------------------------------------------------------
(* Fills.  The hypothesis about the rings is not needed for them: whatever *)
(* a ring has lost, what it holds has the price of its level.              *)

(* A step that records no fill, and changes neither the price nor the side *)
(* of an order that has arrived, keeps what was said of the fills.         *)
LEMMA FillsKept ==
    ASSUME IInv, FillsInv, fills' = fills, arrived' \in Nat, arrived' >= arrived,
           \A o \in Orders : o <= arrived => /\ ord'[o].price = ord[o].price
                                             /\ ord'[o].side = ord[o].side
    PROVE  /\ fills' \in Seq(Fill)
           /\ \A i \in 1 .. Len(fills') : fills'[i].order <= arrived'
           /\ FillWithinLimit'
<1>1. fills \in Seq(Fill) /\ arrived \in Nat
  BY DEF FillsInv, IInv, TypeOK
<1>2. ASSUME NEW i \in 1 .. Len(fills)
      PROVE  /\ fills[i].order \in Orders /\ fills[i].order \in Nat /\ fills[i].order <= arrived
             /\ ~Before(ord[fills[i].order].side, fills[i].price, ord[fills[i].order].price)
  <2>1. fills[i] \in Fill
    BY <1>1
  <2>2. fills[i].order \in Orders /\ fills[i].order \in Nat
    BY <2>1, OrdersAssumption DEF Fill
  <2> QED BY <2>2 DEF FillsInv, FillWithinLimit
<1>3. \A i \in 1 .. Len(fills') : fills'[i].order <= arrived'
  <2> SUFFICES ASSUME NEW i \in 1 .. Len(fills) PROVE fills[i].order <= arrived'
    OBVIOUS
  <2> QED BY <1>1, <1>2
<1>4. FillWithinLimit'
  BY <1>2 DEF FillWithinLimit
<1> QED BY <1>1, <1>3, <1>4

(* The fill that match_order records is at the price of the incoming       *)
(* order, and the level it comes from is not beyond that price.            *)
LEMMA FillAppended ==
    ASSUME IInv, FillsInv, FillStep
    PROVE  FillsInv'
<1> DEFINE p == Opp[1]
           L == Advance(level[p], Live)
           m == HeadOrder(L)
           q == FillQuantity(inc, m)
           f == [order |-> m, quantity |-> q, price |-> ord[inc].price]
<1>1. /\ pc = "fill" /\ ~Exhausted(L) /\ arrived' = arrived /\ levels' = levels /\ inc' = inc
      /\ fills' = Append(fills, f)
      /\ ord' = [ord EXCEPT ![m] = Executed(@, q), ![inc] = Executed(@, q)]
  BY DEF FillStep, FillPrice
<1>2. /\ inc \in Orders /\ ord[inc] \in Order /\ ord[inc].side \in Side /\ ord[inc].price \in Prices
      /\ Opposite(ord[inc].side) \in Side /\ p \in DOMAIN level
      /\ p \in ToSet(levels[Opposite(ord[inc].side)]) /\ ord[inc].remaining \in Nat
      /\ ~Before(ord[inc].side, p, ord[inc].price)
  BY <1>1, MatchedLevel DEF IInv, CallOK, FillsInv, Opp, Order
<1>3. RingOK(level[p])
  BY <1>2 DEF IInv, RingsOK
<1>4. m \in Live /\ \E i \in Slots : m = level[p].buffer[i]
  BY <1>1, <1>3, AdvanceProperties
<1> HIDE DEF m
<1>5. PICK i \in Slots : m = level[p].buffer[i]
  BY <1>4
<1>6. m \in Orders /\ m \in Nat /\ m # NoOrder
  BY <1>4, OrdersAssumption DEF Live
<1>7. /\ m <= arrived /\ ord[m] \in Order /\ ord[m].side \in Side /\ ord[m].price = p
      /\ p \in ToSet(levels[ord[m].side])
  BY <1>2, <1>5, <1>6, SlotContents
<1>8. ord[m].side = Opposite(ord[inc].side)
  <2>1. p \notin ToSet(levels[ord[inc].side])
    BY <1>2, SidesOfBook
  <2>2. ord[m].side # ord[inc].side
    BY <1>7, <2>1
  <2> QED BY <1>2, <1>7, <2>2 DEF Side, Opposite
<1>9. m # inc
  BY <1>2, <1>8 DEF Side, Opposite
<1>10. q \in Nat
  BY <1>2, <1>7 DEF FillQuantity, Order
<1> HIDE DEF q
<1>11. \A o \in Orders : ord'[o].price = ord[o].price /\ ord'[o].side = ord[o].side
  <2>1. ord \in [Orders -> Order]
    BY DEF IInv, TypeOK
  <2>2. /\ ord'[m] = Executed(ord[m], q) /\ ord'[inc] = Executed(ord[inc], q)
        /\ \A o \in Orders : o # m /\ o # inc => ord'[o] = ord[o]
    BY <1>1, <1>2, <1>6, <1>9, <2>1
  <2> QED BY <1>2, <1>7, <2>2, ExecutedFields
<1>12. f \in Fill
  BY <1>2, <1>6, <1>10 DEF Fill
<1>13. f.order = m /\ f.price = ord[inc].price
  OBVIOUS
<1> HIDE DEF f
<1>14. fills \in Seq(Fill)
  BY DEF FillsInv
<1>15. /\ fills' \in Seq(Fill)
       /\ Len(fills') = Len(fills) + 1 /\ Len(fills) \in Nat /\ fills'[Len(fills) + 1] = f
       /\ \A j \in 1 .. Len(fills) : fills'[j] = fills[j]
  BY <1>1, <1>12, <1>14
<1>16. ~Before(ord[m].side, ord[inc].price, ord[m].price)
  <2>1. p \in Prices /\ p \in Nat /\ ord[inc].price \in Nat
    BY <1>2, PricesAssumption DEF IInv, TypeOK
  <2> QED BY <1>2, <1>7, <1>8, <2>1 DEF Before, Opposite, Side
<1>17. ASSUME NEW j \in 1 .. Len(fills')
       PROVE  /\ fills'[j].order <= arrived'
              /\ ~Before(ord'[fills'[j].order].side, fills'[j].price, ord'[fills'[j].order].price)
  <2>1. CASE j = Len(fills) + 1
    BY <1>1, <1>6, <1>7, <1>11, <1>13, <1>15, <1>16, <2>1
  <2>2. CASE j # Len(fills) + 1
    <3>1. j \in 1 .. Len(fills) /\ fills'[j] = fills[j]
      BY <1>15, <2>2
    <3>2. fills[j] \in Fill
      BY <1>14, <3>1
    <3>3. fills[j].order \in Orders
      BY <3>2 DEF Fill
    <3> QED BY <1>1, <1>11, <3>1, <3>3 DEF FillsInv, FillWithinLimit
  <2> QED BY <2>1, <2>2
<1>18. FillWithinLimit'
  BY <1>17 DEF FillWithinLimit
<1>19. Opp' = Opp /\ ord'[inc'].side = ord[inc].side /\ ord'[inc'].price = ord[inc].price
  BY <1>1, <1>2, <1>11 DEF Opp
<1> QED BY <1>2, <1>15, <1>17, <1>18, <1>19 DEF FillsInv

(* No step makes a fill worse than the limit of its maker.                 *)
LEMMA NextFills ==
    ASSUME IInv, FillsInv, [Next]_vars
    PROVE  FillsInv'
<1>0. arrived \in Nat /\ Orders \subseteq Nat /\ ord \in [Orders -> Order]
  BY OrdersAssumption DEF IInv, TypeOK
<1>1. ASSUME NEW o \in Orders, NEW s \in Side, NEW p \in Prices, NEW q \in Quantities,
             AddOrder(o, s, p, q)
      PROVE  FillsInv'
  <2>1. /\ fills' = fills /\ pc' = "idle" /\ arrived' = o /\ o > arrived
        /\ ord' = [ord EXCEPT ![o] = NewOrder(s, p, q)]
    BY <1>1 DEF AddOrder, callVars
  <2>2. \A x \in Orders : x <= arrived => ord'[x] = ord[x]
    BY <1>0, <2>1
  <2>3. arrived' \in Nat /\ arrived' >= arrived
    BY <1>0, <2>1
  <2> QED BY <2>1, <2>2, <2>3, FillsKept DEF FillsInv
<1>2. ASSUME NEW o \in Orders, NEW s \in Side, NEW p \in Prices, NEW q \in Quantities,
             MatchBegin(o, s, p, q)
      PROVE  FillsInv'
  <2>1. fills' = << >> /\ pc' # "fill"
    BY <1>2 DEF MatchBegin
  <2> QED BY <2>1 DEF FillsInv, FillWithinLimit
<1>3. ASSUME ord' = ord, fills' = fills, arrived' = arrived,
             pc' = "fill" => ~Before(ord[inc].side, Opp[1], ord[inc].price)'
      PROVE  FillsInv'
  <2>1. arrived' \in Nat /\ arrived' >= arrived
    BY <1>0, <1>3
  <2> QED BY <1>3, <2>1, FillsKept DEF FillsInv
<1>4. CASE LevelTop
  <2>1. Opp' = Opp /\ CanTrade
    BY <1>4 DEF LevelTop, Opp, bookVars
  <2> QED BY <1>3, <1>4, <2>1 DEF LevelTop, CanTrade
<1>5. CASE LevelDry
  BY <1>3, <1>5 DEF LevelDry
<1>6. CASE FillStep
  BY <1>6, FillAppended
<1>7. CASE LevelDone
  BY <1>3, <1>7 DEF LevelDone
<1>8. CASE MatchEnd
  BY <1>3, <1>8 DEF MatchEnd
<1>9. ASSUME NEW o \in Orders, CancelOrder(o) PROVE FillsInv'
  <2>1. /\ fills' = fills /\ arrived' = arrived /\ pc' = "idle"
        /\ ord' = ord \/ ord' = [ord EXCEPT ![o].status = "CANCELLED"]
    BY <1>9 DEF CancelOrder, callVars
  <2>2. \A x \in Orders : ord'[x].price = ord[x].price /\ ord'[x].side = ord[x].side
    <3>1. CASE ord' = [ord EXCEPT ![o].status = "CANCELLED"]
      BY <1>0, <3>1 DEF Order
    <3> QED BY <2>1, <3>1
  <2>3. arrived' \in Nat /\ arrived' >= arrived
    BY <1>0, <2>1
  <2> QED BY <2>1, <2>2, <2>3, FillsKept DEF FillsInv
<1>10. ASSUME NEW quote \in Quotes, SetMarketPrice(quote) PROVE FillsInv'
  BY <1>3, <1>10 DEF SetMarketPrice, callVars
<1>11. CASE UNCHANGED vars
  BY <1>3, <1>11 DEF vars, bookVars, callVars, FillsInv, Opp
<1> QED BY <1>1, <1>2, <1>4, <1>5, <1>6, <1>7, <1>8, <1>9, <1>10, <1>11 DEF Next, MatchStep

(* No maker trades at a price worse than its own limit, whatever has       *)
(* happened to the rings.                                                  *)
THEOREM FillsWithinLimits == Spec => []FillWithinLimit
<1>1. Init => FillsInv
  BY DEF Init, FillsInv, FillWithinLimit
<1>2. IInv /\ FillsInv /\ [Next]_vars => FillsInv'
  BY NextFills
<1>3. FillsInv => FillWithinLimit
  BY DEF FillsInv
<1> QED BY <1>1, <1>2, <1>3, BookInvariance, PTL DEF Spec

-----------------------------------------------------------------------------
(* The refinement.  What the abstract book shows of an order, its resting  *)
(* orders and its taker:                                                   *)
RecOf(o, r) == [id |-> o, side |-> r.side, price |-> r.price, qty |-> r.remaining]

Book == {AbstractOrder(o) : o \in Resting}

Taken == IF pc = "idle" THEN {} ELSE {AbstractOrder(inc)}

(* Both, before and after a step, in terms of the order objects.           *)
LEMMA BookIs ==
    /\ Book = {RecOf(o, ord[o]) : o \in Resting}
    /\ Book' = {RecOf(o, ord'[o]) : o \in Resting'}
    /\ Taken = IF pc = "idle" THEN {} ELSE {RecOf(inc, ord[inc])}
    /\ Taken' = IF pc' = "idle" THEN {} ELSE {RecOf(inc', ord'[inc'])}
BY DEF Book, Taken, AbstractOrder, RecOf

(* The fields of the abstraction of an order.                              *)
LEMMA RecFields ==
    \A o, r : /\ RecOf(o, r).id = o /\ RecOf(o, r).side = r.side
              /\ RecOf(o, r).price = r.price /\ RecOf(o, r).qty = r.remaining
BY DEF RecOf

(* The abstraction of an order that has just been constructed.             *)
LEMMA RecOfNew ==
    \A o, s, p, q : RecOf(o, NewOrder(s, p, q)) = LOB!Rec(o, s, p, q)
BY DEF RecOf, NewOrder, LOB!Rec

(* The smaller one of two quantities.                                      *)
LEMMA MinOfTwo ==
    ASSUME NEW a \in Int, NEW b \in Int
    PROVE  LOB!Min({a, b}) = IF a <= b THEN a ELSE b
<1> DEFINE P(x) == x \in {a, b} /\ \A y \in {a, b} : x <= y
<1>1. P(IF a <= b THEN a ELSE b) /\ \A x : P(x) => x = IF a <= b THEN a ELSE b
  OBVIOUS
<1> QED BY <1>1 DEF LOB!Min

(* An order that rests is on a level of its side.                          *)
LEMMA BookMember ==
    ASSUME QInv, NEW r \in Book
    PROVE  \E x \in Resting : /\ r = RecOf(x, ord[x]) /\ r.id = x /\ r.side = ord[x].side
                              /\ r.price = ord[x].price /\ r.price \in Prices /\ r.side \in Side
                              /\ r.price \in ToSet(levels[r.side])
<1>1. PICK x \in Resting : r = RecOf(x, ord[x])
  BY BookIs
<1>2. r.id = x /\ r.side = ord[x].side /\ r.price = ord[x].price
  BY <1>1, RecFields
<1>3. ord[x].price \in Prices /\ ord[x].side \in Side /\ ord[x].price \in ToSet(levels[ord[x].side])
  BY <1>1, RestingOrder, LiveOrder
<1> QED BY <1>1, <1>2, <1>3

(* What does not cross the levels of the other side crosses no order.      *)
LEMMA NothingToTrade ==
    ASSUME QInv, NEW t, t.side \in Side, t.price \in Prices, NonCrossing(t.side, t.price)
    PROVE  \A r \in Book : ~LOB!Crosses(t, r)
<1> SUFFICES ASSUME NEW r \in Book, LOB!Crosses(t, r) PROVE FALSE
  OBVIOUS
<1>1. r.price \in Prices /\ r.side \in Side /\ r.price \in ToSet(levels[r.side])
  BY BookMember
<1>2. /\ t.side # r.side
      /\ IF t.side = "BUY" THEN r.price <= t.price ELSE r.price >= t.price
  BY DEF LOB!Crosses
<1>3. r.side = Opposite(t.side)
  BY <1>1, <1>2 DEF Side, Opposite
<1>4. Before(t.side, r.price, t.price)
  BY <1>1, <1>3 DEF NonCrossing
<1>5. r.price \in Nat /\ t.price \in Nat
  BY <1>1, PricesAssumption
<1> QED BY <1>2, <1>4, <1>5 DEF Before

(* add_order is Post.                                                      *)
LEMMA AddOrderPosts ==
    ASSUME QInv, NEW o \in Orders, NEW s \in Side, NEW p \in Prices, NEW q \in Quantities,
           AddOrder(o, s, p, q)
    PROVE  LOB!Post(o, s, p, q)
<1> DEFINE t == LOB!Rec(o, s, p, q)
<1>1. /\ pc = "idle" /\ pc' = "idle" /\ o > arrived /\ arrived' = o /\ q > 0 /\ NonCrossing(s, p)
  BY DEF AddOrder, callVars
<1>2. /\ Resting' = Resting \cup {o} /\ ord'[o] = NewOrder(s, p, q)
      /\ \A x \in Resting : ord'[x] = ord[x]
  BY AddOrderResting
<1>3. t = RecOf(o, NewOrder(s, p, q)) /\ t.side = s /\ t.price = p
  BY RecOfNew DEF LOB!Rec
<1> HIDE DEF t
<1>4. \A r \in Book : ~LOB!Crosses(t, r)
  BY <1>1, <1>3, NothingToTrade
<1>5. Book' = Book \cup {t}
  BY <1>2, <1>3, BookIs
<1>6. Taken = {} /\ Taken' = {}
  BY <1>1 DEF Taken
<1> QED BY <1>1, <1>4, <1>5, <1>6 DEF LOB!Post, Book, Taken, t

(* The start of match is Arrive.                                           *)
LEMMA MatchBeginArrives ==
    ASSUME QInv, NEW o \in Orders, NEW s \in Side, NEW p \in Prices, NEW q \in Quantities,
           MatchBegin(o, s, p, q)
    PROVE  LOB!Arrive(o, s, p, q)
<1>1. /\ pc = "idle" /\ o > arrived /\ arrived' = o
      /\ q = 0 => pc' = "idle"
      /\ q # 0 => pc' = "match" /\ inc' = o
  BY DEF MatchBegin
<1>2. /\ Resting' = Resting /\ ord'[o] = NewOrder(s, p, q)
      /\ \A x \in Resting : ord'[x] = ord[x]
  BY MatchBeginResting
<1>3. Book' = Book
  BY <1>2, BookIs
<1>4. Taken = {} /\ Taken' = IF q = 0 THEN {} ELSE {LOB!Rec(o, s, p, q)}
  BY <1>1, <1>2, BookIs, RecOfNew
<1> QED BY <1>1, <1>3, <1>4 DEF LOB!Arrive, Book, Taken

(* What changes no order and neither begins nor ends a match is invisible. *)
LEMMA Invisible ==
    ASSUME Resting' = Resting, ord' = ord, arrived' = arrived, inc' = inc,
           (pc = "idle" <=> pc' = "idle")
    PROVE  UNCHANGED LOB!lobVars
<1>1. Book' = Book /\ Taken' = Taken
  BY BookIs
<1> QED BY <1>1 DEF LOB!lobVars, Book, Taken

(* The end of match is Settle.                                             *)
LEMMA MatchEndSettles ==
    ASSUME QInv, MatchEnd
    PROVE  \E t \in Taken : LOB!Settle(t)
<1> DEFINE t == RecOf(inc, ord[inc])
<1>1. /\ ord' = ord /\ inc \notin Resting /\ pc = "match" /\ pc' = "idle"
      /\ Resting' = IF ord[inc].remaining > 0 THEN Resting \cup {inc} ELSE Resting
      /\ arrived' = arrived
  BY MatchEndResting DEF MatchEnd
<1>2. Taken = {t} /\ Taken' = {}
  BY <1>1, BookIs
<1>3. /\ ord[inc].side \in Side /\ ord[inc].price \in Prices /\ ord[inc].remaining \in Nat
      /\ t.side = ord[inc].side /\ t.price = ord[inc].price /\ t.qty = ord[inc].remaining
  BY <1>1, Taker, RecFields
<1>4. Book' = IF t.qty = 0 THEN Book ELSE Book \cup {t}
  BY <1>1, <1>3, BookIs
<1> HIDE DEF t
<1>5. t.qty = 0 \/ \A r \in Book : ~LOB!Crosses(t, r)
  <2> SUFFICES ASSUME t.qty # 0 PROVE \A r \in Book : ~LOB!Crosses(t, r)
    OBVIOUS
  <2>1. NonCrossing(ord[inc].side, ord[inc].price)
    BY <1>3, OutOfReach
  <2> QED BY <1>3, <2>1, NothingToTrade
<1>6. LOB!Settle(t)
  BY <1>1, <1>2, <1>4, <1>5 DEF LOB!Settle, Book, Taken
<1> QED BY <1>2, <1>6

(* cancel_order is Cancel, or nothing when the order does not rest: it was *)
(* filled, its level may be gone.                                          *)
LEMMA CancelOrderCancels ==
    ASSUME QInv, NEW o \in Orders, CancelOrder(o)
    PROVE  (\E r \in Book : LOB!Cancel(r)) \/ UNCHANGED LOB!lobVars
<1>1. /\ pc = "idle" /\ pc' = "idle" /\ inc' = inc /\ arrived' = arrived
      /\ Resting' = Resting \ {o}
      /\ \A x \in Orders : x # o => ord'[x] = ord[x]
  BY CancelOrderResting
<1>2. Resting \subseteq Orders
  BY DEF Resting, Live
<1>3. Taken = {} /\ Taken' = {}
  BY <1>1 DEF Taken
<1>4. CASE o \in Resting
  <2> DEFINE r == RecOf(o, ord[o])
  <2>1. r \in Book
    BY <1>4, BookIs
  <2>2. \A x \in Resting : x # o => RecOf(x, ord[x]) # r
    BY RecFields
  <2> HIDE DEF r
  <2>3. Book' = Book \ {r}
    BY <1>1, <1>2, <2>2, BookIs DEF r
  <2>4. LOB!Cancel(r)
    BY <1>1, <1>3, <2>3 DEF LOB!Cancel, Book, Taken
  <2> QED BY <2>1, <2>4
<1>5. CASE o \notin Resting
  <2>1. Book' = Book
    BY <1>1, <1>2, <1>5, BookIs
  <2> QED BY <1>1, <1>3, <2>1 DEF LOB!lobVars, Book, Taken
<1> QED BY <1>4, <1>5

(* The order that a fill is made with has price-time priority over every   *)
(* other resting order of its side.                                        *)
LEMMA MakerIsFirst ==
    ASSUME QInv, FillStep
    PROVE  LET m == HeadOrder(Advance(level[Opp[1]], Live))
           IN  LOB!IsFirst(RecOf(m, ord[m]))
<1> DEFINE m == HeadOrder(Advance(level[Opp[1]], Live))
           r == RecOf(m, ord[m])
<1>1. /\ Opp # << >> /\ m \in Resting /\ ord[m].price = Opp[1]
      /\ ord[m].side = Opposite(ord[inc].side)
      /\ \A o \in Queued(level[Opp[1]]) \cap Live : o = m \/ m < o
  BY Maker
<1>2. r.id = m /\ r.side = ord[m].side /\ r.price = Opp[1]
  BY <1>1, RecFields
<1>3. /\ ord[inc].side \in Side /\ r.side \in Side /\ Opp = levels[r.side]
      /\ Opp \in Seq(Prices) /\ SortedSeq(r.side, Opp) /\ Opp[1] \in Prices
  BY <1>1, <1>2, MatchedLevel DEF Opp, QInv, FillStep
<1> HIDE DEF m, r
<1>4. ASSUME NEW x \in Book \ {r}, x.side = r.side
      PROVE  \/ x.price # r.price /\ (IF r.side = "BUY" THEN r.price > x.price
                                                         ELSE r.price < x.price)
             \/ x.price = r.price /\ r.id < x.id
  <2>1. PICK y \in Resting : /\ x = RecOf(y, ord[y]) /\ x.id = y /\ x.price = ord[y].price
                             /\ x.price \in Prices /\ x.price \in ToSet(levels[x.side])
    BY <1>4, BookMember
  <2>2. y # m
    BY <1>4, <2>1 DEF r
  <2>3. x.price = r.price \/ Before(r.side, r.price, x.price)
    BY <1>2, <1>3, <1>4, <2>1, FrontIsBest
  <2>4. CASE x.price = r.price
    <3>1. y \in Queued(level[Opp[1]]) \cap Live
      BY <1>2, <2>1, <2>4, RestingOrder
    <3> QED BY <1>1, <1>2, <2>1, <2>2, <2>4, <3>1
  <2>5. CASE x.price # r.price
    <3>1. r.price \in Nat /\ x.price \in Nat
      BY <1>2, <1>3, <2>1, PricesAssumption
    <3> QED BY <1>3, <2>3, <2>5, <3>1 DEF Before, Side
  <2> QED BY <2>4, <2>5
<1>5. LOB!IsFirst(r)
  BY <1>4 DEF LOB!IsFirst, Book
<1> QED BY <1>5 DEF r, m

(* What a fill leaves of an order.                                         *)
LEMMA RecOfExecuted ==
    ASSUME NEW o, NEW r \in Order, NEW q
    PROVE  RecOf(o, Executed(r, q)) = LOB!Less(RecOf(o, r), q)
<1>1. /\ Executed(r, q).remaining = r.remaining - q /\ Executed(r, q).side = r.side
      /\ Executed(r, q).price = r.price
  BY ExecutedFields
<1> QED BY <1>1 DEF RecOf, LOB!Less

(* A fill is a Trade with the first order of the other side.               *)
LEMMA FillStepTrades ==
    ASSUME QInv, FillStep
    PROVE  \E t \in Taken : \E r \in Book : LOB!Trade(t, r)
<1> DEFINE m == HeadOrder(Advance(level[Opp[1]], Live))
           q == FillQuantity(inc, m)
           r == RecOf(m, ord[m])
           t == RecOf(inc, ord[inc])
<1>1. pc = "fill" /\ pc' \in {"leave", "fill"} /\ inc' = inc /\ arrived' = arrived
  BY DEF FillStep
<1>2. /\ Opp # << >> /\ m \in Resting /\ m # inc /\ ord[m].price = Opp[1]
      /\ ord[m].side = Opposite(ord[inc].side) /\ q \in Nat
  BY Maker
<1>3. /\ m \in Orders /\ inc \in Orders
      /\ ord'[m] = Executed(ord[m], q) /\ ord'[inc] = Executed(ord[inc], q)
      /\ \A x \in Orders : x # m /\ x # inc => ord'[x] = ord[x]
      /\ Resting' = IF ord[m].remaining - q > 0 THEN Resting ELSE Resting \ {m}
  BY FillStepResting
<1>4. LOB!IsFirst(r)
  BY MakerIsFirst
<1>5. /\ inc \notin Resting /\ ord[inc] \in Order /\ ord[inc].side \in Side
      /\ ord[inc].price \in Prices /\ ord[inc].remaining \in Nat /\ ord[inc].remaining > 0
      /\ ~Before(ord[inc].side, Opp[1], ord[inc].price)
  BY <1>1, Taker DEF QInv, CallQueue
<1>6. /\ ord[m] \in Order /\ ord[m].remaining \in Nat /\ ord[m].remaining > 0 /\ Opp[1] \in Prices
  BY <1>2, RestingOrder, LiveOrder
<1>7. q = IF ord[m].remaining < ord[inc].remaining THEN ord[m].remaining ELSE ord[inc].remaining
  BY DEF FillQuantity
<1> HIDE DEF m, q
<1>8. /\ r.side = ord[m].side /\ r.price = Opp[1] /\ r.qty = ord[m].remaining
      /\ t.side = ord[inc].side /\ t.price = ord[inc].price /\ t.qty = ord[inc].remaining
      /\ \A x \in Resting : x # m => RecOf(x, ord[x]) # r
      /\ r \in Book
  BY <1>2, RecFields, BookIs
<1>9. RecOf(m, ord'[m]) = LOB!Less(r, q) /\ RecOf(inc, ord'[inc]) = LOB!Less(t, q)
  BY <1>3, <1>5, <1>6, RecOfExecuted
<1>10. Taken = {t}
  BY <1>1, BookIs
<1>11. Taken' = {LOB!Less(t, q)}
  BY <1>1, <1>9, BookIs
<1>12. Resting \subseteq Orders
  BY DEF Resting, Live
<1>13. Book \ {r} = {RecOf(x, ord[x]) : x \in Resting \ {m}}
  BY <1>2, <1>8, BookIs
<1>14. Book' = (Book \ {r}) \cup (IF q = r.qty THEN {} ELSE {LOB!Less(r, q)})
  <2>1. \A x \in Resting \ {m} : ord'[x] = ord[x]
    BY <1>3, <1>5, <1>12
  <2>2. CASE ord[m].remaining - q > 0
    <3>1. q # r.qty /\ Resting' = (Resting \ {m}) \cup {m}
      BY <1>2, <1>3, <1>6, <1>7, <1>8, <2>2
    <3> QED BY <1>9, <1>13, <2>1, <3>1, BookIs
  <2>3. CASE ~(ord[m].remaining - q > 0)
    <3>1. q = r.qty /\ Resting' = Resting \ {m}
      BY <1>3, <1>5, <1>6, <1>7, <1>8, <2>3
    <3> QED BY <1>13, <2>1, <3>1, BookIs
  <2> QED BY <2>2, <2>3
<1>15. q = LOB!Min({t.qty, r.qty})
  BY <1>5, <1>6, <1>7, <1>8, MinOfTwo
<1>16. LOB!Crosses(t, r)
  <2>1. ord[inc].price \in Nat /\ Opp[1] \in Nat
    BY <1>5, <1>6, PricesAssumption
  <2>2. IF t.side = "BUY" THEN r.price <= t.price ELSE r.price >= t.price
    BY <1>5, <1>8, <2>1 DEF Before
  <2>3. t.side # r.side
    BY <1>2, <1>5, <1>8 DEF Opposite, Side
  <2> QED BY <2>2, <2>3 DEF LOB!Crosses
<1> HIDE DEF r, t
<1>17. LOB!Trade(t, r)
  BY <1>1, <1>4, <1>5, <1>8, <1>11, <1>14, <1>15, <1>16 DEF LOB!Trade, Book, Taken
<1> QED BY <1>8, <1>10, <1>17

(* Every step of the book is a step of the abstract book or invisible.     *)
LEMMA NextImplements ==
    ASSUME QInv, QInv', [Next]_vars
    PROVE  [LOB!Next]_LOB!lobVars
<1>1. ASSUME NEW o \in Orders, NEW s \in Side, NEW p \in Prices, NEW q \in Quantities,
             AddOrder(o, s, p, q) \/ MatchBegin(o, s, p, q)
      PROVE  LOB!Next
  BY <1>1, AddOrderPosts, MatchBeginArrives DEF LOB!Next, Side
<1>2. CASE LevelTop
  BY <1>2, LevelTopQueue, Invisible DEF LevelTop, QInv
<1>3. CASE LevelDry
  BY <1>3, LevelDryQueue, Invisible DEF LevelDry, QInv
<1>4. CASE FillStep
  BY <1>4, FillStepTrades DEF LOB!Next, Book, Taken
<1>5. CASE LevelDone
  BY <1>5, LevelDoneQueue, Invisible DEF LevelDone, QInv
<1>6. CASE MatchEnd
  BY <1>6, MatchEndSettles DEF LOB!Next, Book, Taken
<1>7. ASSUME NEW o \in Orders, CancelOrder(o) PROVE [LOB!Next]_LOB!lobVars
  BY <1>7, CancelOrderCancels DEF LOB!Next, Book
<1>8. ASSUME UNCHANGED <<ord, arrived, pc, inc>> PROVE UNCHANGED LOB!lobVars
  <2>1. Resting' = Resting
    BY <1>8 DEF Resting, Live, is_active
  <2> QED BY <1>8, <2>1, Invisible
<1>9. ASSUME NEW quote \in Quotes, SetMarketPrice(quote) PROVE UNCHANGED LOB!lobVars
  BY <1>8, <1>9 DEF SetMarketPrice, callVars
<1>10. CASE UNCHANGED vars
  BY <1>8, <1>10 DEF vars, callVars
<1> QED BY <1>1, <1>2, <1>3, <1>4, <1>5, <1>6, <1>7, <1>9, <1>10 DEF Next, MatchStep

(* The book of rings, levels, index and lazy deletion is a price-time-     *)
(* priority book, for every number of orders, every set of prices and      *)
(* quantities and every length of the rings.                               *)
THEOREM BookIsPriceTimePriority == ASSUME RingsHaveRoom PROVE Spec => ImplementsLimitOrderBook
<1>1. Init => LOB!Init
  <2> SUFFICES ASSUME Init PROVE LOB!Init
    OBVIOUS
  <2>1. Resting = {}
    BY DEF Init, Resting, Live, is_active, BlankOrder
  <2>2. Book = {} /\ Taken = {} /\ arrived = 0
    BY <2>1, BookIs DEF Init
  <2> QED BY <2>2 DEF LOB!Init, Book, Taken
<1>2. QInv /\ QInv' /\ [Next]_vars => [LOB!Next]_LOB!lobVars
  BY NextImplements
<1> QED BY <1>1, <1>2, QueueInvariance, PTL DEF Spec, ImplementsLimitOrderBook, LOB!Spec

-----------------------------------------------------------------------------
(* The counters.  Quantity is a sum over a set of orders; Left is the same *)
(* sum over a table, which is what the lemmas of SetSums speak of.         *)
QuantityOf(r, S) == MapThenSumSet(LAMBDA o : r[o].remaining, S)

IsQuantityTable(r, S, g) ==
    g = [s \in SUBSET S |-> IF s = {} THEN 0 ELSE r[Pick(s)].remaining + g[s \ {Pick(s)}]]

(* The two sums agree on finite sets of orders.                            *)
LEMMA QuantityIsLeft ==
    ASSUME NEW r, NEW S, IsFiniteSet(S), S \subseteq Orders
    PROVE  QuantityOf(r, S) = Left(r, S)
<1> DEFINE f == [o \in Orders |-> r[o].remaining]
<1>1. \A s \in SUBSET S : s # {} => f[Pick(s)] = r[Pick(s)].remaining
  <2> SUFFICES ASSUME NEW s \in SUBSET S, s # {} PROVE Pick(s) \in Orders
    OBVIOUS
  <2> QED BY PickProperties
<1> HIDE DEF f
<1>2. \A g : IsQuantityTable(r, S, g) <=> IsSumTable(f, S, g)
  <2>1. ASSUME NEW g
        PROVE  [s \in SUBSET S |-> IF s = {} THEN 0 ELSE r[Pick(s)].remaining + g[s \ {Pick(s)}]]
               = [s \in SUBSET S |-> IF s = {} THEN 0 ELSE f[Pick(s)] + g[s \ {Pick(s)}]]
    BY <1>1
  <2> QED BY <2>1 DEF IsQuantityTable, IsSumTable
<1>3. \E g : IsQuantityTable(r, S, g)
  BY <1>2, TableExists
<1>4. \E g : IsQuantityTable(r, S, g) /\ QuantityOf(r, S) = g[S]
  BY <1>3 DEF QuantityOf, MapThenSumSet, MapThenFoldSet, IsQuantityTable, Pick
<1> QED BY <1>2, <1>4, SumIsTable DEF Left, f

(* The values of the table.                                                *)
LEMMA LeftValues ==
    ASSUME NEW r \in [Orders -> Order], NEW S, S \subseteq Orders
    PROVE  \A o \in S : /\ [x \in Orders |-> r[x].remaining][o] = r[o].remaining
                        /\ r[o].remaining \in Int
BY DEF Order

(* A sum over orders is an integer.                                        *)
LEMMA LeftType ==
    ASSUME NEW r \in [Orders -> Order], NEW S, IsFiniteSet(S), S \subseteq Orders
    PROVE  Left(r, S) \in Int
<1> DEFINE f == [o \in Orders |-> r[o].remaining]
<1>1. \A o \in S : f[o] \in Int
  BY LeftValues
<1> HIDE DEF f
<1>2. SumOver(f, S) \in Int
  BY <1>1, SumType
<1> QED BY <1>2 DEF Left, f

(* Orders that kept their quantities have the same sum.                    *)
LEMMA LeftSame ==
    ASSUME NEW r, NEW t, NEW S, IsFiniteSet(S), S \subseteq Orders,
           \A o \in S : r[o].remaining = t[o].remaining
    PROVE  Left(r, S) = Left(t, S)
<1> DEFINE f == [o \in Orders |-> r[o].remaining]
           g == [o \in Orders |-> t[o].remaining]
<1>1. \A o \in S : f[o] = g[o]
  OBVIOUS
<1> HIDE DEF f, g
<1>2. SumOver(f, S) = SumOver(g, S)
  BY <1>1, SumSame
<1> QED BY <1>2 DEF Left, f, g

(* One order more.                                                         *)
LEMMA LeftGain ==
    ASSUME NEW r \in [Orders -> Order], NEW t \in [Orders -> Order],
           NEW S, IsFiniteSet(S), S \subseteq Orders, NEW o \in Orders, o \notin S,
           \A x \in S : t[x].remaining = r[x].remaining
    PROVE  Left(t, S \cup {o}) = Left(r, S) + t[o].remaining
<1> DEFINE f == [x \in Orders |-> t[x].remaining]
<1>1. Left(r, S) = Left(t, S) /\ Left(t, S) \in Int
  BY LeftSame, LeftType
<1>2. (\A x \in S \cup {o} : f[x] \in Int) /\ f[o] = t[o].remaining /\ f[o] \in Int
  BY LeftValues
<1> HIDE DEF f
<1>3. SumOver(f, S \cup {o}) = f[o] + SumOver(f, S)
  BY <1>2, SumAdd
<1> QED BY <1>1, <1>2, <1>3 DEF Left, f

(* One order that lost q of its quantity, or left with q.                  *)
LEMMA LeftLose ==
    ASSUME NEW r \in [Orders -> Order], NEW t \in [Orders -> Order],
           NEW S, IsFiniteSet(S), S \subseteq Orders, NEW T, T \subseteq S,
           NEW o, S \subseteq T \cup {o}, NEW q, q \in Int,
           \A x \in S : x # o => t[x].remaining = r[x].remaining,
           o \in T => t[o].remaining = r[o].remaining - q,
           o \in S \ T => q = r[o].remaining
    PROVE  Left(t, T) = IF o \in S THEN Left(r, S) - q ELSE Left(r, S)
<1>1. CASE o \notin S
  <2>1. T = S /\ \A x \in S : t[x].remaining = r[x].remaining
    BY <1>1
  <2> QED BY <1>1, <2>1, LeftSame
<1>2. CASE o \in S
  <2> DEFINE R == S \ {o}
  <2>1. /\ IsFiniteSet(R) /\ R \subseteq Orders /\ o \in Orders /\ o \notin R /\ R \cup {o} = S
        /\ r[o].remaining \in Int /\ t[o].remaining \in Int
    BY <1>2, FS_Subset, LeftValues
  <2>2. T = R \/ (T = R \cup {o} /\ o \in T)
    BY <1>2
  <2>3. T = R => q = r[o].remaining
    BY <1>2
  <2>4. \A x \in R : t[x].remaining = r[x].remaining
    OBVIOUS
  <2> HIDE DEF R
  <2>5. Left(r, R) \in Int /\ Left(t, R) = Left(r, R)
    BY <2>1, <2>4, LeftType, LeftSame
  <2>6. Left(r, S) = Left(r, R) + r[o].remaining
    <3>1. Left(r, R \cup {o}) = Left(r, R) + r[o].remaining
      BY <2>1, LeftGain
    <3> QED BY <2>1, <3>1
  <2>7. Left(t, R \cup {o}) = Left(r, R) + t[o].remaining
    BY <2>1, <2>4, LeftGain
  <2>8. CASE T = R
    BY <1>2, <2>1, <2>3, <2>5, <2>6, <2>8
  <2>9. CASE T = R \cup {o} /\ o \in T
    BY <1>2, <2>1, <2>5, <2>6, <2>7, <2>9
  <2> QED BY <2>2, <2>8, <2>9
<1> QED BY <1>1, <1>2

-----------------------------------------------------------------------------
(* Only orders that have arrived rest, finitely many.                      *)
LEMMA RestingFinite ==
    ASSUME QInv
    PROVE  \A S : S \subseteq Resting => IsFiniteSet(S) /\ S \subseteq Orders
<1>1. Resting \subseteq Orders /\ Resting \subseteq 0 .. arrived
  <2> SUFFICES ASSUME NEW o \in Resting PROVE o \in Orders /\ o \in 0 .. arrived
    OBVIOUS
  <2>1. o \in Orders /\ o \in Nat /\ o <= arrived /\ arrived \in Nat
    BY RestingOrder, LiveOrder
  <2> QED BY <2>1
<1>2. arrived \in Nat
  BY DEF QInv, IInv, TypeOK
<1>3. IsFiniteSet(0 .. arrived)
  BY <1>2, FS_Interval
<1> QED BY <1>1, <1>3, FS_Subset

(* The types of what is summed and of what is compared with the sums.      *)
LEMMA CounterTypes ==
    ASSUME QInv
    PROVE  /\ ord \in [Orders -> Order] /\ depth \in [Side -> Int] /\ before \in Int
           /\ \A p \in DOMAIN level : level[p].total \in Int
<1>1. \A p \in DOMAIN level : level[p].total \in Int
  BY QueueParts DEF QInv, Queues
<1> QED BY <1>1 DEF QInv, IInv, TypeOK

(* Steps that neither trade nor add or remove an order.                    *)
LEMMA SumsKeep ==
    ASSUME QInv, Counted, Resting' = Resting, \A o \in Resting : ord'[o] = ord[o],
           DOMAIN level' \subseteq DOMAIN level,
           \A p \in DOMAIN level' :
              /\ level'[p].total = level[p].total
              /\ Queued(level'[p]) \cap Resting = Queued(level[p]) \cap Resting,
           \A s \in Side : Booked(s)' = Booked(s)
    PROVE  Counted'
<1>1. ASSUME NEW s \in Side PROVE Booked(s)' = Left(ord', OnSide(s)')
  <2>1. OnSide(s)' = OnSide(s)
    BY DEF OnSide
  <2>2. IsFiniteSet(OnSide(s)) /\ OnSide(s) \subseteq Orders /\ OnSide(s) \subseteq Resting
    BY RestingFinite DEF OnSide
  <2>3. Left(ord, OnSide(s)) = Left(ord', OnSide(s))
    BY <2>2, LeftSame
  <2> QED BY <2>1, <2>3 DEF Counted
<1>2. ASSUME NEW p \in DOMAIN level'
      PROVE  level'[p].total = Left(ord', Resting' \cap Queued(level'[p]))
  <2> DEFINE S == Resting \cap Queued(level[p])
  <2>1. Resting' \cap Queued(level'[p]) = S
    OBVIOUS
  <2>2. IsFiniteSet(S) /\ S \subseteq Orders /\ S \subseteq Resting
    BY RestingFinite
  <2>3. level'[p].total = Left(ord, S)
    BY DEF Counted
  <2> HIDE DEF S
  <2>4. Left(ord, S) = Left(ord', S)
    BY <2>2, LeftSame
  <2> QED BY <2>1, <2>3, <2>4
<1> QED BY <1>1, <1>2 DEF Counted

(* Steps that put an order at the end of the queue of its price.           *)
LEMMA SumsGain ==
    ASSUME QInv, QInv', Counted, NEW o \in Orders, NEW r \in Order, o \notin Resting,
           Resting' = Resting \cup {o}, ord'[o] = r, \A x \in Resting : ord'[x] = ord[x],
           \A p \in DOMAIN level : o \notin Queued(level[p]),
           DOMAIN level' = DOMAIN level \cup {r.price},
           \A x \in DOMAIN level : x # r.price => level'[x] = level[x],
           Queued(level'[r.price]) =
              (IF r.price \in DOMAIN level THEN Queued(level[r.price]) ELSE {}) \cup {o},
           level'[r.price].total =
              (IF r.price \in DOMAIN level THEN level[r.price].total ELSE 0) + r.remaining,
           \A s \in Side : Booked(s)' = IF s = r.side THEN Booked(s) + r.remaining ELSE Booked(s)
    PROVE  Counted'
<1>0. /\ ord \in [Orders -> Order] /\ ord' \in [Orders -> Order]
      /\ \A p \in DOMAIN level : level[p].total \in Int
      /\ r.remaining \in Int
  <2>1. r.remaining \in Int
    BY DEF Order
  <2> QED BY <2>1, CounterTypes DEF QInv, IInv, TypeOK
<1>1. ASSUME NEW s \in Side PROVE Booked(s)' = Left(ord', OnSide(s)')
  <2>1. OnSide(s)' = IF s = r.side THEN OnSide(s) \cup {o} ELSE OnSide(s)
    BY DEF OnSide
  <2> DEFINE S == OnSide(s)
  <2>2. IsFiniteSet(S) /\ S \subseteq Orders /\ S \subseteq Resting /\ o \notin S
    BY RestingFinite DEF OnSide
  <2>3. Booked(s) = Left(ord, S)
    BY DEF Counted
  <2> HIDE DEF S
  <2>4. Left(ord, S) = Left(ord', S)
    BY <2>2, LeftSame
  <2>5. Left(ord', S \cup {o}) = Left(ord, S) + ord'[o].remaining
    BY <1>0, <2>2, LeftGain
  <2> QED BY <2>1, <2>3, <2>4, <2>5 DEF S
<1>2. ASSUME NEW p \in DOMAIN level'
      PROVE  level'[p].total = Left(ord', Resting' \cap Queued(level'[p]))
  <2> DEFINE S == IF p \in DOMAIN level THEN Resting \cap Queued(level[p]) ELSE {}
             n == IF p \in DOMAIN level THEN level[p].total ELSE 0
  <2>1. IsFiniteSet(S) /\ S \subseteq Orders /\ S \subseteq Resting /\ o \notin S
    BY RestingFinite
  <2>2. n = Left(ord, S)
    <3>1. CASE p \in DOMAIN level
      BY <3>1 DEF Counted
    <3>2. CASE p \notin DOMAIN level
      BY <3>2, SumEmpty DEF Left
    <3> QED BY <3>1, <3>2
  <2>3. /\ p = r.price => Resting' \cap Queued(level'[p]) = S \cup {o}
        /\ p # r.price => Resting' \cap Queued(level'[p]) = S
        /\ level'[p].total = IF p = r.price THEN n + r.remaining ELSE n
    OBVIOUS
  <2> HIDE DEF S, n
  <2>4. Left(ord, S) = Left(ord', S)
    BY <2>1, LeftSame
  <2>5. Left(ord', S \cup {o}) = Left(ord, S) + ord'[o].remaining
    BY <1>0, <2>1, LeftGain
  <2> QED BY <2>2, <2>3, <2>4, <2>5
<1> QED BY <1>1, <1>2 DEF Counted

(* Steps in which one order loses the quantity q, or leaves the book with  *)
(* what it had.                                                            *)
LEMMA SumsLose ==
    ASSUME QInv, QInv', Counted, NEW o \in Orders, NEW q, q \in Int,
           Resting' \subseteq Resting, Resting \subseteq Resting' \cup {o},
           \A x \in Orders : ord'[x].side = ord[x].side,
           \A x \in Resting : x # o => ord'[x].remaining = ord[x].remaining,
           o \in Resting' => ord'[o].remaining = ord[o].remaining - q,
           o \in Resting \ Resting' => q = ord[o].remaining,
           o \notin Resting => q = 0,
           DOMAIN level' \subseteq DOMAIN level,
           \A p \in DOMAIN level' :
              /\ Queued(level'[p]) \cap Resting' = Queued(level[p]) \cap Resting'
              /\ level'[p].total = IF p = ord[o].price THEN level[p].total - q ELSE level[p].total,
           \A s \in Side : Booked(s)' = IF s = ord[o].side THEN Booked(s) - q ELSE Booked(s)
    PROVE  Counted'
<1>0. /\ ord \in [Orders -> Order] /\ ord' \in [Orders -> Order]
      /\ \A p \in DOMAIN level : level[p].total \in Int
  BY CounterTypes DEF QInv, IInv, TypeOK
<1>1. ASSUME NEW S, S \subseteq Resting, NEW T, T = S \cap Resting'
      PROVE  /\ Left(ord', T) = IF o \in S THEN Left(ord, S) - q ELSE Left(ord, S)
             /\ Left(ord, S) \in Int
  <2>1. IsFiniteSet(S) /\ S \subseteq Orders
    BY <1>1, RestingFinite
  <2>2. /\ T \subseteq S /\ S \subseteq T \cup {o}
        /\ \A x \in S : x # o => ord'[x].remaining = ord[x].remaining
        /\ o \in T => ord'[o].remaining = ord[o].remaining - q
        /\ o \in S \ T => q = ord[o].remaining
    BY <1>1
  <2> QED BY <1>0, <2>1, <2>2, LeftLose, LeftType
<1>2. ASSUME NEW s \in Side PROVE Booked(s)' = Left(ord', OnSide(s)')
  <2>1. OnSide(s) \subseteq Resting /\ OnSide(s)' = OnSide(s) \cap Resting'
    <3>1. \A x \in Resting : ord'[x].side = ord[x].side
      BY RestingFinite
    <3> QED BY <3>1 DEF OnSide
  <2>2. /\ Left(ord', OnSide(s)') = IF o \in OnSide(s) THEN Left(ord, OnSide(s)) - q
                                    ELSE Left(ord, OnSide(s))
        /\ Left(ord, OnSide(s)) \in Int
    BY <1>1, <2>1
  <2>3. Booked(s) = Left(ord, OnSide(s))
    BY DEF Counted
  <2>4. o \in OnSide(s) <=> o \in Resting /\ s = ord[o].side
    BY DEF OnSide
  <2> QED BY <2>2, <2>3, <2>4
<1>3. ASSUME NEW p \in DOMAIN level'
      PROVE  level'[p].total = Left(ord', Resting' \cap Queued(level'[p]))
  <2> DEFINE S == Resting \cap Queued(level[p])
             T == Resting' \cap Queued(level'[p])
  <2>1. p \in DOMAIN level /\ S \subseteq Resting /\ T = S \cap Resting'
    OBVIOUS
  <2>2. level[p].total = Left(ord, S)
    BY <2>1 DEF Counted
  <2>3. o \in S <=> o \in Resting /\ p = ord[o].price
    BY <2>1, RestingOrder, QueuedOrder
  <2>4. level'[p].total = IF p = ord[o].price THEN level[p].total - q ELSE level[p].total
    OBVIOUS
  <2> HIDE DEF S, T
  <2>5. /\ Left(ord', T) = IF o \in S THEN Left(ord, S) - q ELSE Left(ord, S)
        /\ Left(ord, S) \in Int
    BY <1>1, <2>1
  <2> QED BY <2>2, <2>3, <2>4, <2>5 DEF T
<1> QED BY <1>2, <1>3 DEF Counted

(* Each step keeps the counters.  add_order:                               *)
LEMMA AddOrderCounts ==
    ASSUME QInv, QInv', Counted, RingsHaveRoom, NEW o \in Orders, NEW s \in Side,
           NEW p \in Prices, NEW q \in Quantities, AddOrder(o, s, p, q)
    PROVE  Counted'
<1> DEFINE r == NewOrder(s, p, q)
<1>1. /\ o \notin Resting /\ Resting' = Resting \cup {o} /\ ord'[o] = r
      /\ \A x \in Resting : ord'[x] = ord[x]
  BY AddOrderResting
<1>2. /\ DOMAIN level' = DOMAIN level \cup {p}
      /\ \A x \in DOMAIN level : x # p => level'[x] = level[x]
      /\ Queued(level'[p]) = (IF p \in DOMAIN level THEN Queued(level[p]) ELSE {}) \cup {o}
      /\ level'[p].total = (IF p \in DOMAIN level THEN level[p].total ELSE 0) + q
      /\ depth' = [depth EXCEPT ![s] = @ + q]
  <2>1. IInv'
    BY DEF QInv
  <2>2. /\ DOMAIN level' = DOMAIN level \cup {p}
        /\ \A x \in DOMAIN level : x # p => level'[x] = level[x]
    BY <2>1, AddOrderQueue
  <2>3. Queued(level'[p]) = (IF p \in DOMAIN level THEN Queued(level[p]) ELSE {}) \cup {o}
    BY <2>1, AddOrderQueue
  <2>4. level'[p].total = (IF p \in DOMAIN level THEN level[p].total ELSE 0) + q
    BY <2>1, AddOrderQueue
  <2>5. depth' = [depth EXCEPT ![s] = @ + q]
    BY DEF AddOrder, RestOrder, NewOrder
  <2> QED BY <2>1, <2>2, <2>3, <2>4, <2>5
<1>3. r \in Order /\ r.side = s /\ r.price = p /\ r.remaining = q
  BY NewOrderType
<1> HIDE DEF r
<1>4. ASSUME NEW x \in DOMAIN level PROVE o \notin Queued(level[x])
  <2>1. o \in Queued(level[x]) => o <= arrived /\ o \in Nat /\ arrived \in Nat
    BY QueuedOrder
  <2>2. o > arrived
    BY DEF AddOrder
  <2> QED BY <2>1, <2>2
<1>5. \A t \in Side : Booked(t)' = IF t = s THEN Booked(t) + q ELSE Booked(t)
  <2>1. pc = "idle" /\ pc' = "idle"
    BY DEF AddOrder, callVars
  <2> QED BY <1>2, <2>1, CounterTypes DEF Booked
<1> QED BY <1>1, <1>2, <1>3, <1>4, <1>5, SumsGain

(* The end of match:                                                       *)
LEMMA MatchEndCounts ==
    ASSUME QInv, QInv', Counted, RingsHaveRoom, MatchEnd
    PROVE  Counted'
<1> DEFINE r == ord[inc]
<1>1. /\ ord' = ord /\ inc \notin Resting /\ pc = "match" /\ pc' = "idle"
      /\ Resting' = IF r.remaining > 0 THEN Resting \cup {inc} ELSE Resting
  BY MatchEndResting
<1>2. /\ inc \in Orders /\ r \in Order
      /\ \A x \in DOMAIN level : inc \notin Queued(level[x])
  BY <1>1, Taker
<1>3. CASE r.remaining > 0
  <2>1. /\ DOMAIN level' = DOMAIN level \cup {r.price}
        /\ \A x \in DOMAIN level : x # r.price => level'[x] = level[x]
        /\ Queued(level'[r.price]) =
              (IF r.price \in DOMAIN level THEN Queued(level[r.price]) ELSE {}) \cup {inc}
        /\ level'[r.price].total =
              (IF r.price \in DOMAIN level THEN level[r.price].total ELSE 0) + r.remaining
        /\ depth' = [depth EXCEPT ![r.side] = @ + r.remaining]
    BY <1>3, MatchEndQueue DEF QInv
  <2>2. \A t \in Side : Booked(t)' = IF t = r.side THEN Booked(t) + r.remaining ELSE Booked(t)
    BY <1>1, <2>1, CounterTypes DEF Booked
  <2>3. ord'[inc] = r /\ (\A x \in Resting : ord'[x] = ord[x]) /\ Resting' = Resting \cup {inc}
    BY <1>1, <1>3
  <2> HIDE DEF r
  <2> QED BY <1>1, <1>2, <2>1, <2>2, <2>3, SumsGain
<1>4. CASE ~(r.remaining > 0)
  <2>1. level' = level /\ depth' = depth
    BY <1>4, MatchEndQueue DEF QInv
  <2>2. \A t \in Side : Booked(t)' = Booked(t)
    BY <1>1, <2>1 DEF Booked
  <2>3. Resting' = Resting
    BY <1>1, <1>4
  <2> QED BY <1>1, <2>1, <2>2, <2>3, SumsKeep
<1> QED BY <1>3, <1>4

(* The beginning of match:                                                 *)
LEMMA MatchBeginCounts ==
    ASSUME QInv, Counted, NEW o \in Orders, NEW s \in Side, NEW p \in Prices,
           NEW q \in Quantities, MatchBegin(o, s, p, q)
    PROVE  Counted'
<1>1. Resting' = Resting /\ \A x \in Resting : ord'[x] = ord[x]
  BY MatchBeginResting
<1>2. level' = level /\ depth' = depth /\ pc = "idle" /\ pc' \in {"idle", "match"}
  BY DEF MatchBegin, bookVars
<1>3. \A t \in Side : Booked(t)' = Booked(t)
  BY <1>2 DEF Booked
<1> QED BY <1>1, <1>2, <1>3, SumsKeep

(* A turn of match's loop begins with nothing to book:                     *)
LEMMA LevelTopCounts ==
    ASSUME QInv, QInv', Counted, LevelTop
    PROVE  Counted'
<1>1. /\ pc = "match" /\ pc' = "fill" /\ before' = level[Opp[1]].total
      /\ UNCHANGED <<ord, level, levels, depth, inc>> /\ CanTrade
  BY DEF LevelTop, bookVars
<1>2. Resting' = Resting /\ Opp' = Opp /\ Opp # << >>
  BY <1>1, LevelTopQueue DEF QInv, Opp, CanTrade
<1>3. level[Opp[1]].total \in Int
  BY <1>1, <1>2, OwnSide, CounterTypes
<1>4. \A t \in Side : Booked(t)' = Booked(t)
  BY <1>1, <1>2, <1>3, CounterTypes DEF Booked
<1> QED BY <1>1, <1>2, <1>4, SumsKeep

(* Dead orders that advance() drops were not counted:                      *)
LEMMA LevelDryCounts ==
    ASSUME QInv, QInv', Counted, LevelDry
    PROVE  Counted'
<1>1. /\ pc = "fill" /\ pc' = "leave"
      /\ UNCHANGED <<ord, levels, depth, inc, before>> /\ DOMAIN level' = DOMAIN level
  BY DEF LevelDry
<1>2. /\ Resting' = Resting
      /\ \A x \in DOMAIN level : /\ level'[x].total = level[x].total
                                 /\ Queued(level'[x]) \cap Resting = Queued(level[x]) \cap Resting
  BY LevelDryQueue DEF QInv
<1>3. Opp' = Opp /\ Opp # << >>
  BY <1>1 DEF Opp, QInv, IInv, CallOK
<1>4. Opp[1] \in DOMAIN level
  BY <1>1, <1>3, OwnSide
<1>5. \A t \in Side : Booked(t)' = Booked(t)
  BY <1>1, <1>2, <1>3, <1>4 DEF Booked
<1> QED BY <1>1, <1>2, <1>5, SumsKeep

(* match books the difference that its fills made:                         *)
LEMMA LevelDoneCounts ==
    ASSUME QInv, QInv', Counted, LevelDone
    PROVE  Counted'
<1> DEFINE s == Opposite(ord[inc].side)
<1>1. /\ pc = "leave" /\ pc' = "match" /\ UNCHANGED <<ord, inc, before>>
      /\ depth' = [depth EXCEPT ![s] = @ - (before - level[Opp[1]].total)]
  BY DEF LevelDone
<1>2. /\ Resting' = Resting /\ DOMAIN level' \subseteq DOMAIN level
      /\ \A x \in DOMAIN level' : level'[x] = level[x]
  BY LevelDoneQueue DEF QInv
<1>3. \A t \in Side : Booked(t)' = Booked(t)
  BY <1>1, CounterTypes DEF Booked
<1> QED BY <1>1, <1>2, <1>3, SumsKeep

(* A fill takes its quantity from the maker and from the level:            *)
LEMMA FillStepCounts ==
    ASSUME QInv, QInv', Counted, FillStep
    PROVE  Counted'
<1> DEFINE m == HeadOrder(Advance(level[Opp[1]], Live))
           q == FillQuantity(inc, m)
<1>1. /\ pc = "fill" /\ pc' \in {"leave", "fill"} /\ DOMAIN level' = DOMAIN level
      /\ UNCHANGED <<levels, depth, inc, before>>
  BY DEF FillStep
<1>2. /\ Opp # << >> /\ m \in Resting /\ ord[m].price = Opp[1]
      /\ ord[m].side = Opposite(ord[inc].side) /\ q \in Nat /\ ord[m].remaining - q \in Nat
  BY Maker
<1>3. /\ m \in Orders /\ m # inc /\ inc \in Orders
      /\ ord'[m] = Executed(ord[m], q)
      /\ \A x \in Orders : x # m /\ x # inc => ord'[x] = ord[x]
      /\ \A x \in Orders : ord'[x].side = ord[x].side
      /\ Resting' = IF ord[m].remaining - q > 0 THEN Resting ELSE Resting \ {m}
  BY FillStepResting
<1>4. \A x \in DOMAIN level :
         /\ Queued(level'[x]) \cap Resting' = Queued(level[x]) \cap Resting'
         /\ level'[x].total = IF x = Opp[1] THEN level[x].total - q ELSE level[x].total
  BY FillStepQueue DEF QInv
<1> HIDE DEF m, q
<1>5. /\ ord[m] \in Order /\ ord[m].remaining \in Nat /\ inc \notin Resting
      /\ Opp[1] \in DOMAIN level /\ level[Opp[1]].total \in Int
  BY <1>1, <1>2, RestingOrder, LiveOrder, Taker, OwnSide, CounterTypes
<1>6. ord'[m].remaining = ord[m].remaining - q
  BY <1>3, <1>5, ExecutedFields
<1>7. \A x \in Resting : x # m => ord'[x].remaining = ord[x].remaining
  BY <1>3, <1>5, RestingFinite
<1>8. Opp' = Opp
  BY <1>1, <1>3 DEF Opp
<1>9. \A t \in Side : Booked(t)' = IF t = ord[m].side THEN Booked(t) - q ELSE Booked(t)
  <2> SUFFICES ASSUME NEW t \in Side
               PROVE  Booked(t)' = IF t = ord[m].side THEN Booked(t) - q ELSE Booked(t)
    OBVIOUS
  <2>1. level'[Opp[1]].total = level[Opp[1]].total - q
    BY <1>4, <1>5
  <2>2. depth[t] \in Int /\ before \in Int
    BY CounterTypes
  <2>3. ord'[inc'].side = ord[inc].side
    BY <1>1, <1>3
  <2> QED BY <1>1, <1>2, <1>5, <1>8, <2>1, <2>2, <2>3 DEF Booked
<1>10. m \in Resting \ Resting' => q = ord[m].remaining
  BY <1>2, <1>3, <1>5
<1>11. Resting' \subseteq Resting /\ Resting \subseteq Resting' \cup {m} /\ q \in Int
  BY <1>2, <1>3
<1> QED BY <1>1, <1>2, <1>3, <1>4, <1>6, <1>7, <1>9, <1>10, <1>11, SumsLose

(* A cancel takes out what the order had left, at once:                    *)
LEMMA CancelOrderCounts ==
    ASSUME QInv, QInv', Counted, NEW o \in Orders, CancelOrder(o)
    PROVE  Counted'
<1> DEFINE q == ord[o].remaining
<1>1. /\ pc = "idle" /\ pc' = "idle" /\ Resting' = Resting \ {o}
      /\ \A x \in Orders : x # o => ord'[x] = ord[x]
      /\ \A x \in Orders : ord'[x].side = ord[x].side
      /\ o \in Live <=> q > 0
  BY CancelOrderResting
<1>2. /\ DOMAIN level' \subseteq DOMAIN level
      /\ \A x \in DOMAIN level' :
            /\ Queued(level'[x]) \cap Resting' = Queued(level[x]) \cap Resting'
            /\ level'[x].total = IF x = ord[o].price THEN level[x].total - q ELSE level[x].total
      /\ depth' = IF ord[o].price \in DOMAIN level
                  THEN [depth EXCEPT ![ord[o].side] = @ - q] ELSE depth
  BY CancelOrderQueue DEF QInv
<1>3. q \in Nat /\ Resting = Live
  BY <1>1, CounterTypes DEF Order, Resting
<1>4. ord[o].price \notin DOMAIN level => q = 0
  BY <1>1, <1>3, RestingOrder
<1> HIDE DEF q
<1>5. \A t \in Side : Booked(t)' = IF t = ord[o].side THEN Booked(t) - q ELSE Booked(t)
  BY <1>1, <1>2, <1>3, <1>4, CounterTypes DEF Booked
<1>6. o \notin Resting => q = 0
  BY <1>1, <1>3
<1>7. \A x \in Resting : x # o => ord'[x].remaining = ord[x].remaining
  BY <1>1, RestingFinite
<1>8. /\ Resting' \subseteq Resting /\ Resting \subseteq Resting' \cup {o} /\ q \in Int
      /\ o \notin Resting' /\ (o \in Resting \ Resting' => q = ord[o].remaining)
  BY <1>1, <1>3 DEF q
<1> QED BY <1>1, <1>2, <1>5, <1>6, <1>7, <1>8, SumsLose

(* No step of any call lets the counters drift.                            *)
LEMMA NextCounts ==
    ASSUME QInv, QInv', Counted, RingsHaveRoom, [Next]_vars
    PROVE  Counted'
<1>1. ASSUME NEW o \in Orders, NEW s \in Side, NEW p \in Prices, NEW q \in Quantities,
             AddOrder(o, s, p, q) \/ MatchBegin(o, s, p, q)
      PROVE  Counted'
  BY <1>1, AddOrderCounts, MatchBeginCounts
<1>2. CASE LevelTop \/ LevelDry \/ LevelDone
  BY <1>2, LevelTopCounts, LevelDryCounts, LevelDoneCounts
<1>3. CASE FillStep
  BY <1>3, FillStepCounts
<1>4. CASE MatchEnd
  BY <1>4, MatchEndCounts
<1>5. ASSUME NEW o \in Orders, CancelOrder(o) PROVE Counted'
  BY <1>5, CancelOrderCounts
<1>6. ASSUME UNCHANGED <<ord, level, levels, depth, pc, inc, before>> PROVE Counted'
  <2>1. Resting' = Resting /\ Opp' = Opp
    BY <1>6 DEF Resting, Live, is_active, Opp
  <2>2. \A t \in Side : Booked(t)' = Booked(t)
    BY <1>6, <2>1 DEF Booked
  <2> QED BY <1>6, <2>1, <2>2, SumsKeep
<1>7. ASSUME NEW quote \in Quotes, SetMarketPrice(quote) PROVE Counted'
  BY <1>6, <1>7 DEF SetMarketPrice, callVars
<1>8. CASE UNCHANGED vars
  BY <1>6, <1>8 DEF vars, bookVars, callVars
<1> QED BY <1>1, <1>2, <1>3, <1>4, <1>5, <1>7, <1>8 DEF Next, MatchStep

(* The counters agree with the orders after every step.                    *)
THEOREM CountersInvariance == ASSUME RingsHaveRoom PROVE Spec => [](QInv /\ Counted)
<1>1. Init => QInv /\ Counted
  <2> SUFFICES ASSUME Init PROVE Counted
    BY InitQueue
  <2>1. Resting = {} /\ DOMAIN level = {} /\ pc = "idle" /\ \A s \in Side : depth[s] = 0
    BY DEF Init, Resting, Live, is_active, BlankOrder
  <2>2. \A s \in Side : OnSide(s) = {} /\ Left(ord, {}) = 0
    BY <2>1, SumEmpty DEF OnSide, Left
  <2> QED BY <2>1, <2>2 DEF Counted, Booked
<1>2. QInv /\ Counted /\ [Next]_vars => (QInv /\ Counted)'
  BY NextQueue, NextCounts
<1> QED BY <1>1, <1>2, PTL DEF Spec

(* Quantity over resting orders is the sum that the invariant speaks of.   *)
LEMMA QuantityOfResting ==
    ASSUME QInv, NEW S, S \subseteq Resting
    PROVE  Quantity(S) = Left(ord, S)
<1>1. Quantity(S) = QuantityOf(ord, S)
  BY DEF Quantity, QuantityOf, MapThenSumSet, MapThenFoldSet
<1> QED BY <1>1, RestingFinite, QuantityIsLeft

(* size and total of every ring agree with the orders in it, lazily        *)
(* deleted ones not counted.                                               *)
THEOREM RingsCount == ASSUME RingsHaveRoom PROVE Spec => []LevelCounters
<1>1. ASSUME QInv, Counted, NEW p \in DOMAIN level
      PROVE  /\ level[p].size = Span(level[p])
             /\ level[p].total = Quantity(Resting \cap Queued(level[p]))
  <2> DEFINE S == Resting \cap Queued(level[p])
  <2>1. level[p].size = Span(level[p]) /\ level[p].total = Left(ord, S)
    BY <1>1 DEF QInv, Queues, RingIsQueue, Counted
  <2>2. S \subseteq Resting
    OBVIOUS
  <2> HIDE DEF S
  <2>3. Quantity(S) = Left(ord, S)
    BY <1>1, <2>2, QuantityOfResting
  <2> QED BY <2>1, <2>3 DEF S
<1>2. QInv /\ Counted => LevelCounters
  BY <1>1 DEF LevelCounters
<1> QED BY <1>2, CountersInvariance, PTL

(* Between calls the published depth of a side is the quantity that can be *)
(* traded against on it.                                                   *)
THEOREM DepthIsTradable == ASSUME RingsHaveRoom PROVE Spec => []DepthIsLiveQuantity
<1>1. ASSUME QInv, Counted, pc = "idle", NEW s \in Side
      PROVE  depth[s] = Quantity({o \in Resting : ord[o].side = s})
  <2>1. depth[s] = Left(ord, OnSide(s)) /\ OnSide(s) \subseteq Resting
    BY <1>1 DEF Counted, Booked, OnSide
  <2>2. Quantity(OnSide(s)) = Left(ord, OnSide(s))
    BY <1>1, <2>1, QuantityOfResting
  <2> QED BY <2>1, <2>2 DEF OnSide
<1>2. QInv /\ Counted => DepthIsLiveQuantity
  BY <1>1 DEF DepthIsLiveQuantity
<1> QED BY <1>2, CountersInvariance, PTL
=============================================================================
