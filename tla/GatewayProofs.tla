--------------------------- MODULE GatewayProofs ----------------------------
(***************************************************************************)
(* Proofs about ExecutionGateway, for any number of engines, workers and   *)
(* slots.  A slot that an engine holds is held by no other, and a queued   *)
(* report is intact until its slot is acquired again; a push that meets no *)
(* other in its queue adds one report to it; and as the counter of the     *)
(* round robin goes through one half of its range, the workers take turns. *)
(***************************************************************************)
EXTENDS ExecutionGateway, SetSums, SequenceTheorems, TLAPS

(* The engine has acquired a slot and not yet released it.                 *)
Holding(e) == call[e].at \in {"copy", "push", "store", "count", "release"}

(* What the queue of a worker holds.                                       *)
Entries(w) == {queue[w][i] : i \in DOMAIN queue[w]}

(* A held slot is not in the pool, and has one holder.                     *)
SlotsOwned ==
    \A e \in Engines : Holding(e) =>
        /\ call[e].slot \in Slots \ free
        /\ \A d \in Engines \ {e} : Holding(d) => call[d].slot # call[e].slot

(* Between the copy and the store, the slot holds the engine's report.     *)
CopyKept ==
    \A e \in Engines : call[e].at \in {"push", "store"} => content[call[e].slot] = call[e].report

(* What a queue holds was acquired before; if not again since, and not in  *)
(* the hands of an engine that is about to copy into it, it is intact.     *)
EntriesIntact ==
    \A w \in Workers : \A r \in Entries(w) :
        /\ r.uses <= uses[r.slot]
        /\ r.uses = uses[r.slot] =>
              /\ content[r.slot] = r.report
              /\ \A e \in Engines : call[e].at = "copy" => call[e].slot # r.slot

(* The inductive invariant of slots and queues.                            *)
IInv == TypeOK /\ SlotsOwned /\ CopyKept /\ EntriesIntact

-----------------------------------------------------------------------------
(* Each worker's turn is a worker: the modulus of the counter.             *)
LEMMA SelectsWorker == m_next_worker \in Int => SelectWorker \in Workers
  BY GatewayAssumption DEF SelectWorker, AsSize, Workers

(* A report that goes out leaves the others in place.                      *)
LEMMA EntriesOfTail ==
  ASSUME queue \in [Workers -> Seq(Entry)], NEW w \in Workers, queue[w] # << >>,
         queue' = [queue EXCEPT ![w] = Tail(@)]
  PROVE  /\ queue' \in [Workers -> Seq(Entry)]
         /\ \A v \in Workers : Entries(v)' \subseteq Entries(v)
<1> DEFINE q == queue[w]
<1>1. q \in Seq(Entry) /\ q # << >>
  OBVIOUS
<1>2. /\ Tail(q) \in Seq(Entry) /\ Len(Tail(q)) = Len(q) - 1
      /\ \A i \in 1 .. Len(Tail(q)) : Tail(q)[i] = q[i + 1]
  BY <1>1, HeadTailProperties
<1>4. queue' \in [Workers -> Seq(Entry)]
  BY <1>2
<1> SUFFICES ASSUME NEW v \in Workers PROVE Entries(v)' \subseteq Entries(v)
  BY <1>4
<1>3. queue'[w] = Tail(q) /\ (v # w => queue'[v] = queue[v])
  OBVIOUS
<1>5. CASE v = w
  <2>1. queue[v] = q /\ queue'[v] = Tail(q)
    BY <1>3, <1>5
  <2>2. Len(q) \in Nat /\ DOMAIN q = 1 .. Len(q) /\ DOMAIN Tail(q) = 1 .. Len(q) - 1
    BY <1>1, <1>2
  <2>3. \A i \in DOMAIN Tail(q) : i + 1 \in DOMAIN q /\ Tail(q)[i] = q[i + 1]
    <3> HIDE DEF q
    <3> QED
      BY <1>2, <2>2
  <2> HIDE DEF q
  <2> QED
    BY <1>4, <2>1, <2>3 DEF Entries
<1>6. CASE v # w
  BY <1>3, <1>4, <1>6 DEF Entries
<1> QED
  BY <1>5, <1>6

(* A store puts at most the new report into a queue.                       *)
LEMMA EntriesOfStore ==
  ASSUME queue \in [Workers -> Seq(Entry)], NEW x \in Entry, NEW w \in Workers,
         NEW n \in Nat, queue' = [queue EXCEPT ![w] = Append(Before(@, n), x)]
  PROVE  /\ queue' \in [Workers -> Seq(Entry)]
         /\ \A v \in Workers : Entries(v)' \subseteq Entries(v) \cup {x}
<1> DEFINE q == queue[w]
           k == IF n < Len(q) THEN n ELSE Len(q)
           s == Before(q, n)
<1>1. q \in Seq(Entry) /\ k \in Nat /\ k <= Len(q) /\ \A i \in 1 .. k : q[i] \in Entry
  OBVIOUS
<1>2. s = SubSeq(q, 1, k)
  BY DEF Before
<1> HIDE DEF q, k, s
<1>3. /\ s \in Seq(Entry) /\ Len(s) = k
      /\ \A i \in 1 .. k : s[i] = q[i]
  <2>1. /\ SubSeq(q, 1, k) \in Seq(Entry)
        /\ Len(SubSeq(q, 1, k)) = IF 1 <= k THEN k - 1 + 1 ELSE 0
        /\ \A i \in 1 .. k - 1 + 1 : SubSeq(q, 1, k)[i] = q[1 + i - 1]
    BY <1>1, SubSeqProperties
  <2> QED
    BY <1>1, <1>2, <2>1
<1>4. /\ Append(s, x) \in Seq(Entry) /\ Len(Append(s, x)) = k + 1
      /\ \A i \in 1 .. k : Append(s, x)[i] = s[i]
      /\ Append(s, x)[k + 1] = x
  BY <1>3, AppendProperties
<1>6. queue' \in [Workers -> Seq(Entry)]
  BY <1>4 DEF s, q
<1> SUFFICES ASSUME NEW v \in Workers PROVE Entries(v)' \subseteq Entries(v) \cup {x}
  BY <1>6
<1>5. queue'[w] = Append(s, x) /\ (v # w => queue'[v] = queue[v])
  BY DEF s, q
<1>7. CASE v = w
  <2>1. \A i \in DOMAIN Append(s, x) : Append(s, x)[i] = x \/ (i \in DOMAIN q /\ Append(s, x)[i] = q[i])
    BY <1>1, <1>3, <1>4
  <2>2. queue'[v] = Append(s, x) /\ queue[v] = q
    BY <1>5, <1>7 DEF q
  <2> QED
    BY <1>6, <2>1, <2>2 DEF Entries
<1>8. CASE v # w
  BY <1>5, <1>6, <1>8 DEF Entries
<1> QED
  BY <1>7, <1>8

-----------------------------------------------------------------------------
(* What the actions assign to the locals of a call.                        *)
LEMMA CallUpdates ==
  ASSUME NEW c \in Call, NEW n \in Int,
         NEW a \in {"idle", "acquire", "copy", "push", "store", "count", "release", "crashed"}
  PROVE  /\ [c EXCEPT !.at = a] \in Call
         /\ [c EXCEPT !.tail = n] \in Call
         /\ [c EXCEPT !.at = a, !.tail = n] \in Call
         /\ \A s \in Slots : [c EXCEPT !.at = a, !.slot = s] \in Call
<1>1. [c EXCEPT !.at = a] \in Call
  BY DEF Call
<1>2. [c EXCEPT !.tail = n] \in Call
  BY DEF Call
<1>3. [c EXCEPT !.at = a, !.tail = n] \in Call
  BY DEF Call
<1>4. \A s \in Slots : [c EXCEPT !.at = a, !.slot = s] \in Call
  BY DEF Call
<1> QED
  BY <1>1, <1>2, <1>3, <1>4

(* The members keep their types.                                           *)
LEMMA TypeStep == TypeOK /\ SlotsOwned /\ [Next]_vars => TypeOK'
<1> SUFFICES ASSUME TypeOK, SlotsOwned, [Next]_vars PROVE TypeOK'
  OBVIOUS
<1> USE DEF TypeOK
<1>1. ASSUME NEW e \in Engines, NEW isOrder \in BOOLEAN, NEW i \in WorkerIds, Send(e, isOrder, i)
      PROVE  TypeOK'
  <2> DEFINE w == IF i < 0 THEN SelectWorker ELSE i
  <2>1. m_next_worker' \in Int
    BY <1>1, GatewayAssumption DEF Send, Increment
  <2>2. CASE w >= NUM_WORKERS
    BY <1>1, <2>1, <2>2 DEF Send, poolVars
  <2>3. CASE ~(w >= NUM_WORKERS)
    <3>1. w \in Workers
      BY <2>3, SelectsWorker, GatewayAssumption DEF Workers
    <3> DEFINE c == [at |-> "acquire", report |-> sends + 1, worker |-> w, slot |-> 0, tail |-> 0]
    <3>2. call' = [call EXCEPT ![e] = c]
      BY <1>1, <2>3 DEF Send
    <3>3. call' \in [Engines -> Call]
      <4>1. c \in Call
        BY <3>1 DEF Call
      <4> QED
        BY <3>2, <4>1
    <3> QED
      BY <1>1, <2>1, <3>3 DEF Send, poolVars
  <2> QED
    BY <2>2, <2>3
<1>2. ASSUME NEW e \in Engines, Acquire(e) PROVE TypeOK'
  <2>1. CASE free = {}
    <3>1. call' = [call EXCEPT ![e] = [call[e] EXCEPT !.at = "crashed"]] /\ UNCHANGED <<free, uses>>
      BY <1>2, <2>1 DEF Acquire
    <3>2. [call[e] EXCEPT !.at = "crashed"] \in Call
      BY CallUpdates
    <3>3. call' \in [Engines -> Call]
      BY <3>1, <3>2
    <3> QED
      BY <1>2, <3>1, <3>3 DEF Acquire, counters, logVars
  <2>2. CASE free # {}
    <3>1. PICK s \in free : /\ free' = free \ {s} /\ uses' = [uses EXCEPT ![s] = @ + 1]
                           /\ call' = [call EXCEPT ![e].at = "copy", ![e].slot = s]
      BY <1>2, <2>2 DEF Acquire
    <3>2. call' = [call EXCEPT ![e] = [call[e] EXCEPT !.at = "copy", !.slot = s]]
      BY <3>1
    <3>3. [call[e] EXCEPT !.at = "copy", !.slot = s] \in Call
      BY CallUpdates
    <3>4. call' \in [Engines -> Call] /\ uses' \in [Slots -> Nat] /\ free' \subseteq Slots
      BY <3>1, <3>2, <3>3
    <3> QED
      BY <1>2, <3>4 DEF Acquire, counters, logVars
  <2> QED
    BY <2>1, <2>2
<1>3. ASSUME NEW e \in Engines, Copy(e) PROVE TypeOK'
  BY <1>3 DEF Copy, Call, counters, logVars
<1>4. ASSUME NEW e \in Engines, PushBegin(e) PROVE TypeOK'
  <2>1. call[e].worker \in Workers /\ queue[call[e].worker] \in Seq(Entry)
    BY DEF Call
  <2> DEFINE n == Len(queue[call[e].worker])
             a == IF n < QUEUE_SIZE THEN "store" ELSE "release"
  <2>2. [call[e] EXCEPT !.at = a, !.tail = n] \in Call
    <3>1. n \in Int /\ a \in {"store", "release"} /\ call[e] \in Call
      BY <2>1
    <3> HIDE DEF n, a
    <3> QED
      BY <3>1, CallUpdates
  <2>3. call' = [call EXCEPT ![e] = [call[e] EXCEPT !.at = a, !.tail = n]]
    BY <1>4 DEF PushBegin
  <2> HIDE DEF n, a
  <2>4. call' \in [Engines -> Call]
    BY <2>2, <2>3
  <2> QED
    BY <1>4, <2>4 DEF PushBegin, counters, logVars, poolVars
<1>5. ASSUME NEW e \in Engines, PushEnd(e) PROVE TypeOK'
  <2> DEFINE c == call[e]
             entry == [slot |-> c.slot, report |-> c.report, uses |-> uses[c.slot]]
  <2>1. c.slot \in Slots /\ c.worker \in Workers /\ c.tail \in Int /\ entry \in Entry
    BY <1>5 DEF PushEnd, Call, Entry, SlotsOwned, Holding
  <2>2. queue' = [queue EXCEPT ![c.worker] =
                     IF c.tail >= 0 THEN Append(Before(@, c.tail), entry) ELSE << >>]
    BY <1>5 DEF PushEnd
  <2>3. queue' \in [Workers -> Seq(Entry)]
    <3>1. CASE c.tail >= 0
      <4>1. queue' = [queue EXCEPT ![c.worker] = Append(Before(@, c.tail), entry)]
        BY <2>2, <3>1
      <4>2. c.tail \in Nat
        BY <2>1, <3>1
      <4> HIDE DEF c, entry
      <4> QED
        BY <2>1, <4>1, <4>2, EntriesOfStore
    <3>2. CASE ~(c.tail >= 0)
      <4>1. queue' = [queue EXCEPT ![c.worker] = << >>]
        BY <1>5, <3>2 DEF PushEnd
      <4>2. << >> \in Seq(Entry)
        OBVIOUS
      <4> HIDE DEF c
      <4> QED
        BY <4>1, <4>2
    <3> QED
      BY <3>1, <3>2
  <2> QED
    BY <1>5, <2>3 DEF PushEnd, Call, counters, poolVars, logVars
<1>6. ASSUME NEW e \in Engines, Count(e) PROVE TypeOK'
  BY <1>6 DEF Count, Call, logVars, poolVars
<1>7. ASSUME NEW e \in Engines, Release(e) PROVE TypeOK'
  BY <1>7, GatewayAssumption DEF Release, Call, NoCall, Workers, SlotsOwned, Holding, counters, logVars
<1>8. ASSUME NEW w \in Workers, ReceiveReport(w) PROVE TypeOK'
  <2>1. queue' \in [Workers -> Seq(Entry)]
    BY <1>8, EntriesOfTail DEF ReceiveReport
  <2>2. call' \in [Engines -> Call]
    <3>1. ASSUME NEW e \in Engines PROVE [call[e] EXCEPT !.tail = @ - 1] \in Call
      <4>1. call[e].tail - 1 \in Int
        BY DEF Call
      <4>2. call[e] \in Call
        OBVIOUS
      <4> QED
        BY <4>1, <4>2, CallUpdates
    <3> QED
      BY <1>8, <3>1 DEF ReceiveReport
  <2> QED
    BY <1>8, <2>1, <2>2 DEF ReceiveReport, counters, poolVars, logVars
<1>9. CASE UNCHANGED vars
  BY <1>9 DEF vars, counters, poolVars, logVars
<1> QED
  BY <1>1, <1>2, <1>3, <1>4, <1>5, <1>6, <1>7, <1>8, <1>9 DEF Next

-----------------------------------------------------------------------------
(* A slot gets a holder only from the pool, and goes back only from its    *)
(* holder.                                                                 *)
LEMMA OwnedStep == TypeOK /\ SlotsOwned /\ [Next]_vars => SlotsOwned'
<1> SUFFICES ASSUME TypeOK, SlotsOwned, [Next]_vars PROVE SlotsOwned'
  OBVIOUS
<1> USE DEF TypeOK, SlotsOwned, Holding, Call
<1>1. ASSUME NEW e \in Engines, NEW isOrder \in BOOLEAN, NEW i \in WorkerIds, Send(e, isOrder, i)
      PROVE  SlotsOwned'
  <2>1. free' = free /\ \A d \in Engines \ {e} : call'[d] = call[d]
    BY <1>1 DEF Send, poolVars
  <2>2. call'[e].at \in {"idle", "acquire"}
    BY <1>1 DEF Send, NoCall
  <2> QED
    BY <2>1, <2>2
<1>2. ASSUME NEW e \in Engines, Acquire(e) PROVE SlotsOwned'
  <2>1. ASSUME NEW s \in free, free' = free \ {s},
               call' = [call EXCEPT ![e].at = "copy", ![e].slot = s]
        PROVE  SlotsOwned'
    BY <2>1
  <2>2. CASE UNCHANGED free /\ call' = [call EXCEPT ![e].at = "crashed"]
    BY <2>2
  <2> QED
    BY <1>2, <2>1, <2>2 DEF Acquire
<1>3. ASSUME NEW e \in Engines, Copy(e) \/ PushBegin(e) \/ PushEnd(e) \/ Count(e) PROVE SlotsOwned'
  <2>1. /\ free' = free
        /\ call'[e].slot = call[e].slot /\ Holding(e)
        /\ \A d \in Engines \ {e} : call'[d] = call[d]
    BY <1>3 DEF Copy, PushBegin, PushEnd, Count, poolVars
  <2> QED
    BY <2>1
<1>4. ASSUME NEW e \in Engines, Release(e) PROVE SlotsOwned'
  <2>1. /\ free' = free \cup {call[e].slot} /\ Holding(e) /\ ~Holding(e)'
        /\ \A d \in Engines \ {e} : call'[d] = call[d]
    BY <1>4 DEF Release, NoCall
  <2>2. ASSUME NEW d \in Engines, Holding(d)'
        PROVE  d # e /\ call'[d] = call[d] /\ Holding(d) /\ call[d].slot # call[e].slot
    BY <2>1, <2>2
  <2> HIDE DEF Holding
  <2> QED
    BY <2>1, <2>2
<1>5. ASSUME NEW w \in Workers, ReceiveReport(w) PROVE SlotsOwned'
  <2>1. /\ free' = free
        /\ \A d \in Engines : call'[d].at = call[d].at /\ call'[d].slot = call[d].slot
    BY <1>5 DEF ReceiveReport, poolVars
  <2> QED
    BY <2>1
<1>6. CASE UNCHANGED vars
  BY <1>6 DEF vars, poolVars
<1> QED
  BY <1>1, <1>2, <1>3, <1>4, <1>5, <1>6 DEF Next

(* What an engine has copied stays until it releases the slot: others copy *)
(* into slots of their own.                                                *)
LEMMA CopyKeptStep == TypeOK /\ SlotsOwned /\ CopyKept /\ [Next]_vars => CopyKept'
<1> SUFFICES ASSUME TypeOK, SlotsOwned, CopyKept, [Next]_vars PROVE CopyKept'
  OBVIOUS
<1> USE DEF TypeOK, CopyKept, Call
<1>1. ASSUME NEW e \in Engines, NEW isOrder \in BOOLEAN, NEW i \in WorkerIds, Send(e, isOrder, i)
      PROVE  CopyKept'
  <2>1. content' = content /\ \A d \in Engines \ {e} : call'[d] = call[d]
    BY <1>1 DEF Send, poolVars
  <2>2. call'[e].at \in {"idle", "acquire"}
    BY <1>1, SlotsOwned DEF Send, NoCall, SlotsOwned, Holding
  <2> QED
    BY <2>1, <2>2
<1>2. ASSUME NEW e \in Engines, Copy(e) PROVE CopyKept'
  <2>1. /\ content' = [content EXCEPT ![call[e].slot] = call[e].report]
        /\ call' = [call EXCEPT ![e].at = "push"]
    BY <1>2 DEF Copy
  <2>2. call[e].slot \in Slots
        /\ \A d \in Engines \ {e} : call[d].at \in {"push", "store"} => call[d].slot # call[e].slot
    BY <1>2 DEF Copy, SlotsOwned, Holding
  <2> QED
    BY <2>1, <2>2
<1>3. ASSUME NEW e \in Engines, Acquire(e) \/ PushBegin(e) \/ PushEnd(e) \/ Count(e) \/ Release(e)
      PROVE  CopyKept'
  <2>1. content' = content /\ \A d \in Engines \ {e} : call'[d] = call[d]
    BY <1>3 DEF Acquire, PushBegin, PushEnd, Count, Release, poolVars
  <2>2. call'[e].at \in {"push", "store"} =>
           /\ call[e].at \in {"push", "store"}
           /\ call'[e].slot = call[e].slot /\ call'[e].report = call[e].report
    BY <1>3 DEF Acquire, PushBegin, PushEnd, Count, Release, NoCall
  <2> QED
    BY <2>1, <2>2
<1>4. ASSUME NEW w \in Workers, ReceiveReport(w) PROVE CopyKept'
  <2>1. /\ content' = content
        /\ \A d \in Engines : /\ call'[d].at = call[d].at /\ call'[d].slot = call[d].slot
                              /\ call'[d].report = call[d].report
    BY <1>4 DEF ReceiveReport, poolVars
  <2> QED
    BY <2>1
<1>5. CASE UNCHANGED vars
  BY <1>5 DEF vars, poolVars
<1> QED
  BY <1>1, <1>2, <1>3, <1>4, <1>5 DEF Next

(* A slot is acquired again before anything else is copied into it, and    *)
(* then its number of uses has passed that of every queued report.         *)
LEMMA EntriesStep == IInv /\ [Next]_vars => EntriesIntact'
<1> SUFFICES ASSUME TypeOK, SlotsOwned, CopyKept, EntriesIntact, [Next]_vars PROVE EntriesIntact'
  BY DEF IInv
<1> USE DEF TypeOK, EntriesIntact, Call
<1>0. \A v \in Workers : Entries(v) \subseteq Entry
  BY DEF Entries
<1>1. ASSUME NEW e \in Engines, NEW isOrder \in BOOLEAN, NEW i \in WorkerIds, Send(e, isOrder, i)
      PROVE  EntriesIntact'
  <2>1. /\ content' = content /\ uses' = uses /\ queue' = queue
        /\ \A d \in Engines : call'[d].at = "copy" => call'[d] = call[d]
    BY <1>1 DEF Send, NoCall, poolVars
  <2> QED
    BY <2>1 DEF Entries
<1>2. ASSUME NEW e \in Engines, Acquire(e) PROVE EntriesIntact'
  <2>1. content' = content /\ queue' = queue
    BY <1>2 DEF Acquire
  <2>2. \A v \in Workers : Entries(v)' = Entries(v)
    BY <2>1 DEF Entries
  <2>3. ASSUME NEW s \in free, uses' = [uses EXCEPT ![s] = @ + 1],
               call' = [call EXCEPT ![e].at = "copy", ![e].slot = s]
        PROVE  EntriesIntact'
    <3> SUFFICES ASSUME NEW v \in Workers, NEW r \in Entries(v)
                 PROVE  /\ r.uses <= uses'[r.slot]
                        /\ r.uses = uses'[r.slot] =>
                              /\ content[r.slot] = r.report
                              /\ \A d \in Engines : call'[d].at = "copy" => call'[d].slot # r.slot
      BY <2>1, <2>2
    <3>1. r \in Entry /\ r.uses <= uses[r.slot]
      BY <1>0
    <3>2. CASE r.slot = s
      BY <2>3, <3>1, <3>2 DEF Entry
    <3>3. CASE r.slot # s
      BY <2>3, <3>1, <3>3 DEF Entry
    <3> QED
      BY <3>2, <3>3
  <2>4. CASE UNCHANGED uses /\ call' = [call EXCEPT ![e].at = "crashed"]
    BY <2>1, <2>2, <2>4
  <2> QED
    BY <1>2, <2>3, <2>4 DEF Acquire
<1>3. ASSUME NEW e \in Engines, Copy(e) PROVE EntriesIntact'
  <2>1. /\ content' = [content EXCEPT ![call[e].slot] = call[e].report]
        /\ uses' = uses /\ queue' = queue
        /\ call[e].at = "copy" /\ call' = [call EXCEPT ![e].at = "push"]
    BY <1>3 DEF Copy
  <2>2. \A v \in Workers : Entries(v)' = Entries(v)
    BY <2>1 DEF Entries
  <2> SUFFICES ASSUME NEW v \in Workers, NEW r \in Entries(v)
               PROVE  /\ r.uses <= uses[r.slot]
                      /\ r.uses = uses[r.slot] =>
                            /\ content'[r.slot] = r.report
                            /\ \A d \in Engines : call'[d].at = "copy" => call'[d].slot # r.slot
    BY <2>1, <2>2
  <2>3. r \in Entry
    BY <1>0
  <2>4. r.uses = uses[r.slot] => call[e].slot # r.slot
    BY <2>1
  <2>5. \A d \in Engines : call'[d].at = "copy" => call'[d] = call[d]
    BY <2>1
  <2> QED
    BY <2>1, <2>3, <2>4, <2>5 DEF Entry
<1>4. ASSUME NEW e \in Engines, PushBegin(e) \/ Count(e) \/ Release(e) PROVE EntriesIntact'
  <2>1. /\ content' = content /\ uses' = uses /\ queue' = queue
        /\ \A d \in Engines : call'[d].at = "copy" => call'[d] = call[d]
    BY <1>4 DEF PushBegin, Count, Release, NoCall, poolVars
  <2>2. \A v \in Workers : Entries(v)' = Entries(v)
    BY <2>1 DEF Entries
  <2> QED
    BY <2>1, <2>2
<1>5. ASSUME NEW e \in Engines, PushEnd(e) PROVE EntriesIntact'
  <2> DEFINE c == call[e]
             entry == [slot |-> c.slot, report |-> c.report, uses |-> uses[c.slot]]
  <2>1. /\ content' = content /\ uses' = uses
        /\ \A d \in Engines : call'[d].at = "copy" => call'[d] = call[d] /\ d # e
    BY <1>5 DEF PushEnd, poolVars
  <2>2. c.slot \in Slots /\ c.worker \in Workers /\ c.tail \in Int /\ entry \in Entry
    BY <1>5 DEF PushEnd, Entry, SlotsOwned, Holding
  <2>3. /\ content[c.slot] = c.report
        /\ \A d \in Engines \ {e} : call[d].at = "copy" => call[d].slot # c.slot
    BY <1>5 DEF PushEnd, CopyKept, SlotsOwned, Holding
  <2>4. \A v \in Workers : Entries(v)' \subseteq Entries(v) \cup {entry}
    <3> SUFFICES ASSUME NEW v \in Workers PROVE Entries(v)' \subseteq Entries(v) \cup {entry}
      OBVIOUS
    <3>1. CASE c.tail >= 0
      <4>1. queue' = [queue EXCEPT ![c.worker] = Append(Before(@, c.tail), entry)]
        BY <1>5, <3>1 DEF PushEnd
      <4>2. c.tail \in Nat
        BY <2>2, <3>1
      <4> HIDE DEF c, entry
      <4> QED
        BY <2>2, <4>1, <4>2, EntriesOfStore
    <3>2. CASE ~(c.tail >= 0)
      <4>1. queue' = [queue EXCEPT ![c.worker] = << >>]
        BY <1>5, <3>2 DEF PushEnd
      <4> QED
        BY <4>1 DEF Entries
    <3> QED
      BY <3>1, <3>2
  <2> SUFFICES ASSUME NEW v \in Workers, NEW r \in Entries(v)'
               PROVE  /\ r.uses <= uses[r.slot]
                      /\ r.uses = uses[r.slot] =>
                            /\ content[r.slot] = r.report
                            /\ \A d \in Engines : call'[d].at = "copy" => call'[d].slot # r.slot
    BY <2>1
  <2>5. CASE r = entry
    BY <2>1, <2>2, <2>3, <2>5 DEF Entry
  <2>6. CASE r \in Entries(v)
    BY <2>1, <2>6
  <2> QED
    BY <2>4, <2>5, <2>6
<1>6. ASSUME NEW w \in Workers, ReceiveReport(w) PROVE EntriesIntact'
  <2>1. /\ content' = content /\ uses' = uses
        /\ \A d \in Engines : call'[d].at = call[d].at /\ call'[d].slot = call[d].slot
    BY <1>6 DEF ReceiveReport, poolVars
  <2>2. \A v \in Workers : Entries(v)' \subseteq Entries(v)
    BY <1>6, EntriesOfTail DEF ReceiveReport
  <2> QED
    BY <2>1, <2>2
<1>7. CASE UNCHANGED vars
  BY <1>7 DEF vars, poolVars, Entries
<1> QED
  BY <1>1, <1>2, <1>3, <1>4, <1>5, <1>6, <1>7 DEF Next

-----------------------------------------------------------------------------
(* The inductive invariant: who holds which slot, and which of the queued  *)
(* reports are still what was sent.                                        *)
THEOREM GatewayInvariance == Spec => []IInv
<1>1. Init => IInv
  <2> SUFFICES ASSUME Init PROVE IInv
    OBVIOUS
  <2>1. TypeOK
    BY GatewayAssumption DEF Init, TypeOK, Call, NoCall, Workers
  <2>2. \A e \in Engines : call[e].at = "idle"
    BY DEF Init, NoCall
  <2>3. \A w \in Workers : Entries(w) = {}
    BY DEF Init, Entries
  <2> QED
    BY <2>1, <2>2, <2>3 DEF IInv, SlotsOwned, Holding, CopyKept, EntriesIntact
<1>2. IInv /\ [Next]_vars => IInv'
  BY TypeStep, OwnedStep, CopyKeptStep, EntriesStep DEF IInv
<1> QED
  BY <1>1, <1>2, PTL DEF Spec

(* The members of the gateway keep their types.                            *)
THEOREM GatewayTypeCorrect == Spec => []TypeOK
<1>1. IInv => TypeOK
  BY DEF IInv
<1> QED
  BY <1>1, GatewayInvariance, PTL

(* send_report gives the slot back before anybody has read it, yet what a  *)
(* consumer finds in a slot that was not acquired since is what was sent.  *)
THEOREM QueuedReportsIntact == Spec => []ReportIntact
<1>1. IInv => ReportIntact
  BY DEF IInv, EntriesIntact, Entries, ReportIntact
<1> QED
  BY <1>1, GatewayInvariance, PTL

-----------------------------------------------------------------------------
(* The folds of the two properties below are sums over a set.              *)
LEMMA FoldIsSum ==
    ASSUME NEW f
    PROVE  FoldFunction(+, 0, f) = SumOver(f, DOMAIN f)
BY DEF FoldFunction, FoldFunctionOnSet, SumOver, MapThenSumSet, MapThenFoldSet

(* The engines that have stored a report and not counted it, the lengths   *)
(* of the queues and their sum.                                            *)
Counting == {e \in Engines : call[e].at = "count"}
Lengths == [w \in Workers |-> Len(queue[w])]
QueuedReports == SumOver(Lengths, Workers)

(* The engine has read its queue's tail and is about to store.             *)
Storing(e) == call[e].at = "store"

(* An engine that is about to store is the only one on its queue, and the  *)
(* tail that it has read is still the tail.                                *)
Alone ==
    \A e \in Engines : Storing(e) =>
        /\ call[e].tail = Len(queue[call[e].worker])
        /\ \A d \in Engines \ {e} : Storing(d) => call[d].worker # call[e].worker

(* As long as no two engines have raced: what was counted, or is about to  *)
(* be, is what was received or is in a queue.                              *)
Tallied ==
    /\ m_total_reports \in Int /\ received \in Int
    /\ ~raced => Alone /\ m_total_reports + Cardinality(Counting) = received + QueuedReports

(* Lengths are natural numbers.                                            *)
LEMMA LengthsType == TypeOK => Lengths \in [Workers -> Nat]
<1> SUFFICES ASSUME TypeOK, NEW w \in Workers PROVE Len(queue[w]) \in Nat
  BY DEF Lengths
<1>1. queue[w] \in Seq(Entry)
  BY DEF TypeOK
<1> QED BY <1>1

(* There are finitely many workers.                                        *)
LEMMA WorkersFinite == IsFiniteSet(Workers)
  BY GatewayAssumption, FS_Interval DEF Workers

(* The length of one queue changes, the others stay.                       *)
LEMMA QueuedShift ==
    ASSUME TypeOK, TypeOK', NEW x \in Workers, NEW d \in Int,
           Len(queue'[x]) = Len(queue[x]) + d, \A w \in Workers \ {x} : queue'[w] = queue[w]
    PROVE  QueuedReports' = QueuedReports + d
<1> DEFINE f == Lengths
           g == Lengths'
<1>1. f \in [Workers -> Nat]
  BY LengthsType
<1>2. g \in [Workers -> Nat]
  <2>1. (TypeOK => Lengths \in [Workers -> Nat])'
    BY LengthsType, PTL
  <2> QED BY <2>1 DEF Workers
<1>3. g[x] = f[x] + d /\ \A w \in Workers \ {x} : g[w] = f[w]
  BY DEF Lengths, Workers
<1>4. QueuedReports = SumOver(f, Workers)
  BY DEF QueuedReports
<1>5. QueuedReports' = SumOver(g, Workers)
  BY DEF QueuedReports, SumOver, Workers, MapThenSumSet, MapThenFoldSet
<1> HIDE DEF f, g
<1> QED BY <1>1, <1>2, <1>3, <1>4, <1>5, WorkersFinite, SumShift

(* Where no queue changes, neither does the sum of their lengths.          *)
LEMMA QueuedSame ==
    ASSUME queue' = queue
    PROVE  QueuedReports' = QueuedReports
BY DEF QueuedReports, Lengths, SumOver, Workers, MapThenSumSet, MapThenFoldSet

(* An engine begins, or has done with, the count of its report.            *)
LEMMA CountingShift ==
    ASSUME IsFiniteSet(Engines), NEW e \in Engines, \A d \in Engines \ {e} : call'[d].at = call[d].at
    PROVE  /\ Cardinality(Counting) \in Nat
           /\ (call[e].at = "count" <=> call'[e].at = "count")
                 => Cardinality(Counting)' = Cardinality(Counting)
           /\ call[e].at # "count" /\ call'[e].at = "count"
                 => Cardinality(Counting)' = Cardinality(Counting) + 1
           /\ call[e].at = "count" /\ call'[e].at # "count"
                 => Cardinality(Counting)' = Cardinality(Counting) - 1
<1> DEFINE C == Counting
           D == Counting'
<1>0. IsFiniteSet(C) /\ IsFiniteSet(D)
  BY FS_Subset DEF Counting
<1>1. Cardinality(C) \in Nat
  BY <1>0, FS_CardinalityType
<1>2. CASE call[e].at = "count" <=> call'[e].at = "count"
  <2>1. D = C
    BY <1>2 DEF Counting
  <2> QED BY <1>1, <1>2, <2>1
<1>3. CASE call[e].at # "count" /\ call'[e].at = "count"
  <2>1. D = C \cup {e} /\ e \notin C
    BY <1>3 DEF Counting
  <2>2. Cardinality(D) = Cardinality(C) + 1
    BY <1>0, <2>1, FS_AddElement
  <2> QED BY <1>1, <1>3, <2>2
<1>4. CASE call[e].at = "count" /\ call'[e].at # "count"
  <2>1. D = C \ {e} /\ e \in C
    BY <1>4 DEF Counting
  <2>2. Cardinality(D) = Cardinality(C) - 1
    BY <1>0, <2>1, FS_RemoveElement
  <2> QED BY <1>1, <1>4, <2>2
<1> QED BY <1>2, <1>3, <1>4

(* The sum of the lengths is an integer.                                   *)
LEMMA QueuedType == TypeOK => QueuedReports \in Int
<1>1. ASSUME TypeOK PROVE \A w \in Workers : Lengths[w] \in Int
  BY <1>1, LengthsType
<1> QED BY <1>1, WorkersFinite, SumType DEF QueuedReports

(* Every step keeps the account, unless two engines race on a queue.       *)
LEMMA TalliedStep ==
    ASSUME IsFiniteSet(Engines), TypeOK, TypeOK', Tallied, [Next]_vars
    PROVE  Tallied'
<1> USE DEF Tallied
<1>0. QueuedReports \in Int
  BY QueuedType
<1>1. ASSUME NEW e \in Engines, NEW isOrder \in BOOLEAN, NEW i \in WorkerIds, Send(e, isOrder, i)
      PROVE  Tallied'
  <2>1. /\ queue' = queue /\ received' = received /\ m_total_reports' = m_total_reports /\ raced' = raced
        /\ \A d \in Engines \ {e} : call'[d] = call[d]
        /\ call[e].at = "idle" /\ call'[e].at \in {"idle", "acquire"}
    BY <1>1 DEF Send, TypeOK
  <2>2. QueuedReports' = QueuedReports /\ Cardinality(Counting)' = Cardinality(Counting)
    BY <2>1, QueuedSame, CountingShift
  <2>3. Alone => Alone'
    BY <2>1 DEF Alone, Storing
  <2> QED BY <2>1, <2>2, <2>3
<1>2. ASSUME NEW e \in Engines, Acquire(e) \/ Copy(e) \/ Release(e) PROVE Tallied'
  <2>1. /\ queue' = queue /\ received' = received /\ m_total_reports' = m_total_reports /\ raced' = raced
        /\ \A d \in Engines \ {e} : call'[d] = call[d]
        /\ call[e].at \notin {"count", "store"} /\ call'[e].at \notin {"count", "store"}
    <3>1. CASE Acquire(e)
      BY <3>1 DEF Acquire, TypeOK, Call, counters
    <3>2. CASE Copy(e)
      BY <3>2 DEF Copy, TypeOK, Call, counters
    <3>3. CASE Release(e)
      BY <3>3 DEF Release, NoCall, TypeOK, Call, counters
    <3> QED BY <1>2, <3>1, <3>2, <3>3
  <2>2. QueuedReports' = QueuedReports /\ Cardinality(Counting)' = Cardinality(Counting)
    BY <2>1, QueuedSame, CountingShift
  <2>3. Alone => Alone'
    BY <2>1 DEF Alone, Storing
  <2> QED BY <2>1, <2>2, <2>3
<1>3. ASSUME NEW e \in Engines, PushBegin(e) PROVE Tallied'
  <2>1. /\ queue' = queue /\ received' = received /\ m_total_reports' = m_total_reports
        /\ \A d \in Engines \ {e} : call'[d] = call[d]
        /\ call[e].at = "push" /\ call'[e].at \in {"store", "release"}
        /\ call'[e].worker = call[e].worker /\ call'[e].tail = Len(queue[call[e].worker])
        /\ ~raced' => /\ ~raced
                      /\ \A d \in Engines \ {e} : Storing(d) => call[d].worker # call[e].worker
    BY <1>3 DEF PushBegin, TypeOK, Call, counters, Storing
  <2>2. QueuedReports' = QueuedReports /\ Cardinality(Counting)' = Cardinality(Counting)
    BY <2>1, QueuedSame, CountingShift
  <2>3. ~raced' /\ Alone => Alone'
    BY <2>1 DEF Alone, Storing
  <2> QED BY <2>1, <2>2, <2>3
<1>4. ASSUME NEW e \in Engines, PushEnd(e) PROVE Tallied'
  <2> DEFINE c == call[e]
             q == queue[c.worker]
             entry == [slot |-> c.slot, report |-> c.report, uses |-> uses[c.slot]]
  <2>1. /\ received' = received /\ m_total_reports' = m_total_reports /\ raced' = raced
        /\ \A d \in Engines \ {e} : call'[d] = call[d]
        /\ c.at = "store" /\ call'[e].at = "count" /\ c.worker \in Workers
    BY <1>4 DEF PushEnd, TypeOK, Call, counters
  <2> SUFFICES ASSUME ~raced
               PROVE  Alone' /\ m_total_reports + Cardinality(Counting)' = received + QueuedReports'
    BY <2>1
  <2>2. Alone /\ m_total_reports + Cardinality(Counting) = received + QueuedReports
    OBVIOUS
  <2>3. c.tail = Len(q) /\ \A d \in Engines \ {e} : Storing(d) => call[d].worker # c.worker
    BY <2>1, <2>2 DEF Alone, Storing
  <2>4. q \in Seq(Entry) /\ Len(q) \in Nat
    BY <2>1 DEF TypeOK
  <2>5. queue' = [queue EXCEPT ![c.worker] = Append(q, entry)]
    <3>1. queue' = [queue EXCEPT ![c.worker] = Append(Before(q, c.tail), entry)]
      <4>1. c.tail >= 0
        BY <2>3, <2>4
      <4>2. queue' = [queue EXCEPT ![c.worker] =
                         IF c.tail >= 0 THEN Append(Before(@, c.tail), entry) ELSE << >>]
        BY <1>4 DEF PushEnd
      <4> QED BY <4>1, <4>2
    <3>2. Before(q, c.tail) = q
      <4>1. Before(q, c.tail) = SubSeq(q, 1, Len(q))
        BY <2>3, <2>4 DEF Before
      <4> HIDE DEF q
      <4> QED BY <2>4, <4>1
    <3> QED BY <3>1, <3>2
  <2>6. Len(Append(q, entry)) = Len(q) + 1
    <3> HIDE DEF q, entry
    <3> QED BY <2>4
  <2>7. QueuedReports' = QueuedReports + 1
    <3>1. queue'[c.worker] = Append(q, entry) /\ \A w \in Workers \ {c.worker} : queue'[w] = queue[w]
      BY <2>1, <2>5 DEF TypeOK
    <3>2. Len(queue'[c.worker]) = Len(queue[c.worker]) + 1 /\ 1 \in Int
      BY <2>6, <3>1
    <3> DEFINE x == c.worker
               d == 1
    <3>3. Len(queue'[x]) = Len(queue[x]) + d /\ d \in Int /\ x \in Workers
          /\ \A w \in Workers \ {x} : queue'[w] = queue[w]
      BY <2>1, <3>1, <3>2
    <3> HIDE DEF x, d
    <3>4. QueuedReports' = QueuedReports + d
      BY <3>3, QueuedShift
    <3> QED BY <3>4 DEF d
  <2>8. Cardinality(Counting)' = Cardinality(Counting) + 1 /\ Cardinality(Counting) \in Nat
    BY <2>1, CountingShift
  <2>9. Alone'
    <3>1. \A d \in Engines : Storing(d)' => d # e /\ Storing(d) /\ call'[d] = call[d]
                                            /\ queue'[call[d].worker] = queue[call[d].worker]
      BY <2>1, <2>3, <2>5 DEF Storing, TypeOK, Call
    <3> QED BY <2>2, <3>1 DEF Alone
  <2> QED BY <1>0, <2>2, <2>7, <2>8, <2>9
<1>5. ASSUME NEW e \in Engines, Count(e) PROVE Tallied'
  <2>1. /\ queue' = queue /\ received' = received /\ raced' = raced
        /\ m_total_reports' = m_total_reports + 1
        /\ \A d \in Engines \ {e} : call'[d] = call[d]
        /\ call[e].at = "count" /\ call'[e].at = "release"
    BY <1>5 DEF Count, TypeOK
  <2>2. /\ QueuedReports' = QueuedReports
        /\ Cardinality(Counting)' = Cardinality(Counting) - 1 /\ Cardinality(Counting) \in Nat
    BY <2>1, QueuedSame, CountingShift
  <2>3. Alone => Alone'
    BY <2>1 DEF Alone, Storing
  <2> QED BY <1>0, <2>1, <2>2, <2>3
<1>6. ASSUME NEW w \in Workers, ReceiveReport(w) PROVE Tallied'
  <2>1. /\ received' = received + 1 /\ m_total_reports' = m_total_reports /\ raced' = raced
        /\ queue[w] # << >> /\ queue' = [queue EXCEPT ![w] = Tail(@)]
        /\ \A d \in Engines : call'[d].at = call[d].at /\ call'[d].worker = call[d].worker
        /\ \A d \in Engines : IF Storing(d) /\ call[d].worker = w /\ call[d].tail >= 0
                              THEN call'[d].tail = call[d].tail - 1 ELSE call'[d].tail = call[d].tail
    BY <1>6 DEF ReceiveReport, TypeOK, Call, counters, Storing
  <2>2. queue[w] \in Seq(Entry) /\ Len(queue[w]) \in Nat /\ Len(Tail(queue[w])) = Len(queue[w]) - 1
    <3> DEFINE q == queue[w]
    <3>1. q \in Seq(Entry) /\ q # << >>
      BY <2>1 DEF TypeOK
    <3> HIDE DEF q
    <3>2. Len(q) \in Nat /\ Len(Tail(q)) = Len(q) - 1
      BY <3>1
    <3> QED BY <3>1, <3>2 DEF q
  <2>3. queue'[w] = Tail(queue[w]) /\ \A v \in Workers \ {w} : queue'[v] = queue[v]
    BY <2>1 DEF TypeOK
  <2>4. QueuedReports' = QueuedReports - 1
    <3> DEFINE d == -1
    <3>1. Len(queue'[w]) = Len(queue[w]) + d /\ d \in Int
      BY <2>2, <2>3
    <3> HIDE DEF d
    <3>2. QueuedReports' = QueuedReports + d
      BY <2>3, <3>1, QueuedShift
    <3> QED BY <1>0, <3>2 DEF d
  <2>5. Cardinality(Counting)' = Cardinality(Counting)
    <3>1. Counting' = Counting
      BY <2>1 DEF Counting
    <3> QED BY <3>1
  <2>6. Alone => Alone'
    <3> SUFFICES ASSUME Alone, NEW e \in Engines, Storing(e)'
                 PROVE  /\ call'[e].tail = Len(queue'[call'[e].worker])
                        /\ \A d \in Engines \ {e} : Storing(d)' => call'[d].worker # call'[e].worker
      BY DEF Alone
    <3>1. Storing(e) /\ call[e].tail = Len(queue[call[e].worker]) /\ call[e].worker \in Workers
      BY <2>1 DEF Alone, Storing, TypeOK, Call
    <3>2. \A d \in Engines \ {e} : Storing(d)' => call'[d].worker # call'[e].worker
      BY <2>1, <3>1 DEF Alone, Storing
    <3>3. CASE call[e].worker = w
      <4>1. call[e].tail >= 0 /\ call[e].tail = Len(queue[w])
        BY <2>2, <3>1, <3>3
      <4>2. call'[e].tail = Len(queue[w]) - 1 /\ call'[e].worker = w
        BY <2>1, <3>1, <3>3, <4>1
      <4>3. call'[e].tail = Len(queue'[call'[e].worker])
        BY <2>2, <2>3, <4>2
      <4> QED BY <3>2, <4>3
    <3>4. CASE call[e].worker # w
      BY <2>1, <2>3, <3>1, <3>2, <3>4
    <3> QED BY <3>3, <3>4
  <2>7. Cardinality(Counting) \in Nat
    BY FS_Subset, FS_CardinalityType DEF Counting
  <2> QED BY <1>0, <2>1, <2>4, <2>5, <2>6, <2>7
<1>7. CASE UNCHANGED vars
  <2>1. QueuedReports' = QueuedReports /\ Counting' = Counting /\ Alone' = Alone
    BY <1>7, QueuedSame DEF vars, counters, Counting, Alone, Storing
  <2> QED BY <1>7, <2>1 DEF vars, counters
<1> QED BY <1>1, <1>2, <1>3, <1>4, <1>5, <1>6, <1>7 DEF Next

(* Every report that send_report counts is in a queue or was received, and *)
(* none is there that it does not count, unless two engines have raced on  *)
(* one queue; for any finite number of engines.                            *)
THEOREM ReportsAddUp == IsFiniteSet(Engines) => (Spec => []ReportsCounted)
<1> SUFFICES ASSUME IsFiniteSet(Engines) PROVE Spec => []ReportsCounted
  OBVIOUS
<1>1. Init => Tallied
  <2> SUFFICES ASSUME Init PROVE Tallied
    OBVIOUS
  <2>1. \A e \in Engines : call[e].at = "idle"
    BY DEF Init, NoCall
  <2>2. Counting = {} /\ Alone
    BY <2>1 DEF Counting, Alone, Storing
  <2>3. QueuedReports = 0
    <3>1. \A w \in Workers : Lengths[w] = 0
      BY DEF Init, Lengths
    <3>2. \A w \in Workers \ {} : Lengths[w] \in Int /\ Lengths[w] = 0
      BY <3>1
    <3>3. SumOver(Lengths, {}) = SumOver(Lengths, Workers)
      BY <3>2, WorkersFinite, SumSubset
    <3> QED BY <3>3, SumEmpty DEF QueuedReports
  <2> QED BY <2>2, <2>3, FS_EmptySet DEF Tallied, Init
<1>2. TypeOK /\ TypeOK' /\ Tallied /\ [Next]_vars => Tallied'
  BY TalliedStep
<1>3. Tallied => ReportsCounted
  <2>1. Lengths = [w \in Workers |-> Len(queue[w])] /\ DOMAIN Lengths = Workers
    BY DEF Lengths
  <2>2. FoldFunction(+, 0, Lengths) = QueuedReports
    BY <2>1, FoldIsSum DEF QueuedReports
  <2> QED BY <2>1, <2>2 DEF Tallied, Counting, ReportsCounted
<1> QED BY <1>1, <1>2, <1>3, GatewayTypeCorrect, PTL DEF Spec

-----------------------------------------------------------------------------
(* The half of the counter's range that is not negative.                   *)
HalfRange == INT_RANGE \div 2

(* The remainder is determined by the equation of the division,            *)
LEMMA Remainder ==
    ASSUME NEW a \in Int, NEW k \in Int, NEW N \in Nat \ {0}, NEW r \in 0 .. N - 1, a = k * N + r
    PROVE  (a % N) = r
OBVIOUS

(* ... which it satisfies together with the quotient.                      *)
LEMMA Division ==
    ASSUME NEW a \in Int, NEW N \in Nat \ {0}
    PROVE  (a \div N) \in Int /\ a = (a \div N) * N + (a % N) /\ (a % N) \in 0 .. N - 1
OBVIOUS

(* The remainder of the next number is the next remainder, or 0.           *)
LEMMA NextRemainder ==
    ASSUME NEW a \in Int, NEW N \in Nat \ {0}
    PROVE  ((a + 1) % N) = IF (a % N) + 1 = N THEN 0 ELSE (a % N) + 1
<1> DEFINE k == a \div N
           r == a % N
<1>1. k \in Int /\ a = k * N + r /\ r \in 0 .. N - 1
  BY Division
<1> HIDE DEF k, r
<1>2. CASE r + 1 = N
  <2>1. a + 1 = (k + 1) * N + 0 /\ a + 1 \in Int /\ k + 1 \in Int /\ 0 \in 0 .. N - 1
    BY <1>1, <1>2
  <2> DEFINE b == a + 1
             j == k + 1
  <2>2. b = j * N + 0 /\ b \in Int /\ j \in Int
    BY <2>1
  <2> HIDE DEF b, j
  <2>3. (b % N) = 0
    BY <2>1, <2>2, Remainder
  <2> QED BY <1>2, <2>3 DEF b, r
<1>3. CASE r + 1 # N
  <2> DEFINE b == a + 1
             x == r + 1
  <2>1. b = k * N + x /\ b \in Int /\ x \in 0 .. N - 1
    BY <1>1, <1>3
  <2> HIDE DEF b, x
  <2>2. (b % N) = x
    BY <1>1, <2>1, Remainder
  <2> QED BY <1>3, <2>2 DEF b, x, r
<1> QED BY <1>2, <1>3

(* The quotient is determined by the equation as well.                     *)
LEMMA DivisionUnique ==
    ASSUME NEW a \in Int, NEW k \in Int, NEW N \in Nat \ {0}, NEW r \in 0 .. N - 1, a = k * N + r
    PROVE  (a \div N) = k
OBVIOUS

(* How many turns the present run of the counter has had.                  *)
Offset == IF m_next_worker >= 0 THEN m_next_worker ELSE m_next_worker + HalfRange

(* The turn with which the present run of the counter has started.         *)
FirstTurn == IF m_next_worker >= 0 THEN 0 ELSE (AsSize(-HalfRange) % NUM_WORKERS)

(* The workers from the turn s up to the turn c, on a circle.              *)
Arc(s, c) == IF s <= c THEN s .. c - 1 ELSE Workers \ (c .. s - 1)

(* One more turn for the workers of a set T; and, up to those, no worker   *)
(* had more than k turns more than another.                                *)
Share(v, T) == IF v \in T THEN 1 ELSE 0

FairShares(k, T) == \A v, w \in Workers : chosen[v] - chosen[w] <= k + Share(v, T) - Share(w, T)

(* After k whole runs of the counter and Offset turns of the present one,  *)
(* no worker is more than k turns ahead, not counting the present run's    *)
(* last circle.                                                            *)
Turns ==
    /\ m_next_worker \in -HalfRange .. HalfRange - 1
    /\ chosen \in [Workers -> Int]
    /\ \E k \in Nat :
          /\ SumOver(chosen, Workers) = k * HalfRange + Offset
          /\ FairShares(k, Arc(FirstTurn, SelectWorker))

(* What is assumed of the ranges, by name.                                 *)
LEMMA Ranges == HalfRange \in Nat \ {0} /\ NUM_WORKERS \in Nat \ {0} /\ SIZE_RANGE \in Nat
  BY GatewayAssumption DEF HalfRange

(* A turn adds its worker to the arc, or completes the circle.             *)
LEMMA ArcGrows ==
    ASSUME NEW s \in Workers, NEW c \in Workers
    PROVE  LET d == IF c + 1 = NUM_WORKERS THEN 0 ELSE c + 1
           IN  /\ c \notin Arc(s, c)
               /\ \/ Arc(s, d) = Arc(s, c) \cup {c}
                  \/ Arc(s, d) = {} /\ Arc(s, c) \cup {c} = Workers
BY GatewayAssumption DEF Arc, Workers

(* A turn of a worker outside of T keeps the shares fair.                  *)
LEMMA SharesStep ==
    ASSUME NEW c \in Workers, chosen \in [Workers -> Int], chosen' = [chosen EXCEPT ![c] = @ + 1],
           NEW T \in SUBSET Workers, c \notin T,
           NEW k \in Nat, FairShares(k, T),
           NEW U, U = T \cup {c} \/ (U = {} /\ T \cup {c} = Workers)
    PROVE  \A v, w \in Workers : /\ chosen'[v] - chosen'[w] <= k + Share(v, U) - Share(w, U)
                                 /\ chosen'[v] - chosen'[w] <= k + 1
<1>1. ASSUME NEW v \in Workers, NEW w \in Workers
      PROVE  /\ chosen'[v] - chosen'[w] <= k + Share(v, T \cup {c}) - Share(w, T \cup {c})
             /\ Share(v, T \cup {c}) \in {0, 1} /\ Share(w, T \cup {c}) \in {0, 1}
             /\ chosen'[v] \in Int /\ chosen'[w] \in Int
  BY DEF Share, FairShares
<1> SUFFICES ASSUME NEW v \in Workers, NEW w \in Workers
             PROVE  /\ chosen'[v] - chosen'[w] <= k + Share(v, U) - Share(w, U)
                    /\ chosen'[v] - chosen'[w] <= k + 1
  OBVIOUS
<1> QED BY <1>1 DEF Share

(* The counter's next value: the same run with the next turn, or a new run. *)
LEMMA CounterStep ==
    ASSUME m_next_worker \in -HalfRange .. HalfRange - 1, m_next_worker' = Increment(m_next_worker)
    PROVE  /\ m_next_worker' \in -HalfRange .. HalfRange - 1
           /\ SelectWorker \in Workers /\ FirstTurn \in Workers /\ Offset \in 0 .. HalfRange - 1
           /\ \/ /\ Offset' = Offset + 1
                 /\ FirstTurn' = FirstTurn
                 /\ SelectWorker' = IF SelectWorker + 1 = NUM_WORKERS THEN 0 ELSE SelectWorker + 1
              \/ /\ Offset + 1 = HalfRange /\ Offset' = 0
                 /\ FirstTurn' = SelectWorker'
<1> DEFINE n == m_next_worker
           N == NUM_WORKERS
<1>1. n \in Int /\ n >= -HalfRange /\ n < HalfRange /\ AsSize(n) \in Int
  BY Ranges DEF AsSize
<1>2. SelectWorker \in Workers /\ FirstTurn \in Workers
  <2>1. AsSize(-HalfRange) \in Int /\ 0 \in Workers
    BY Ranges DEF AsSize, Workers
  <2>2. \A a \in Int : (a % N) \in Workers
    BY Ranges DEF Workers
  <2>3. (AsSize(n) % N) \in Workers /\ (AsSize(-HalfRange) % N) \in Workers
    BY <1>1, <2>1, <2>2
  <2> QED BY <2>1, <2>3 DEF SelectWorker, FirstTurn
<1>3. Offset \in 0 .. HalfRange - 1
  BY <1>1, Ranges DEF Offset
<1>4. CASE n + 1 = HalfRange
  <2>1. n' = -HalfRange /\ n >= 0
    BY <1>1, <1>4, Ranges DEF Increment, HalfRange
  <2>2. Offset + 1 = HalfRange /\ Offset' = 0 /\ ~(n' >= 0)
    BY <1>4, <2>1, Ranges DEF Offset
  <2>3. FirstTurn' = SelectWorker'
    BY <2>1, <2>2 DEF FirstTurn, SelectWorker
  <2>4. n' \in -HalfRange .. HalfRange - 1
    BY <2>1, Ranges
  <2> QED BY <1>2, <1>3, <2>2, <2>3, <2>4
<1>5. CASE n + 1 = 0
  <2>1. n' = 0 /\ n < 0
    BY <1>1, <1>5, Ranges DEF Increment, HalfRange
  <2>2. Offset + 1 = HalfRange /\ Offset' = 0
    BY <1>5, <2>1, Ranges DEF Offset
  <2>3. FirstTurn' = SelectWorker'
    <3>1. (0 % N) = 0
      BY Ranges
    <3> QED BY <2>1, <3>1 DEF FirstTurn, SelectWorker, AsSize
  <2>4. n' \in -HalfRange .. HalfRange - 1
    BY <2>1, Ranges
  <2> QED BY <1>2, <1>3, <2>2, <2>3, <2>4
<1>6. CASE n + 1 # HalfRange /\ n + 1 # 0
  <2>1. n' = n + 1 /\ (n' >= 0 <=> n >= 0)
    BY <1>1, <1>6, Ranges DEF Increment, HalfRange
  <2>2. Offset' = Offset + 1 /\ FirstTurn' = FirstTurn
    BY <1>1, <2>1, Ranges DEF Offset, FirstTurn
  <2>3. AsSize(n') = AsSize(n) + 1
    BY <1>1, <2>1, Ranges DEF AsSize
  <2>4. SelectWorker' = IF SelectWorker + 1 = NUM_WORKERS THEN 0 ELSE SelectWorker + 1
    <3>1. SelectWorker' = (AsSize(n) + 1) % N
      BY <2>3 DEF SelectWorker
    <3> DEFINE a == AsSize(n)
    <3>2. a \in Int /\ N \in Nat \ {0}
      BY <1>1, Ranges
    <3> HIDE DEF a, N
    <3>3. ((a + 1) % N) = IF (a % N) + 1 = N THEN 0 ELSE (a % N) + 1
      BY <3>2, NextRemainder
    <3> QED BY <3>1, <3>3 DEF a, N, SelectWorker
  <2>5. n' \in -HalfRange .. HalfRange - 1
    BY <1>1, <1>6, <2>1, Ranges
  <2> QED BY <1>2, <1>3, <2>2, <2>4, <2>5
<1> QED BY <1>4, <1>5, <1>6

(* One more report, sent to the worker whose turn it is.                   *)
LEMMA TurnTaken ==
    ASSUME Turns, m_next_worker' = Increment(m_next_worker),
           chosen' = [chosen EXCEPT ![SelectWorker] = @ + 1]
    PROVE  Turns'
<1> DEFINE c == SelectWorker
           T == Arc(FirstTurn, c)
           N == NUM_WORKERS
<1>1. PICK k \in Nat : SumOver(chosen, Workers) = k * HalfRange + Offset /\ FairShares(k, T)
  BY DEF Turns
<1>2. /\ m_next_worker \in -HalfRange .. HalfRange - 1
      /\ chosen \in [Workers -> Int]
  BY DEF Turns
<1>3. /\ c \in Workers /\ FirstTurn \in Workers /\ Offset \in 0 .. HalfRange - 1
      /\ m_next_worker' \in -HalfRange .. HalfRange - 1
  BY <1>2, CounterStep
<1>4. T \in SUBSET Workers
  BY <1>3, GatewayAssumption DEF Arc, Workers
<1>5. chosen' \in [Workers -> Int]
  BY <1>2, <1>3
<1>6. SumOver(chosen, Workers)' = SumOver(chosen, Workers) + 1
  <2>1. IsFiniteSet(Workers)
    BY Ranges, FS_Interval DEF Workers
  <2>2. /\ chosen'[c] = chosen[c] + 1 /\ \A w \in Workers \ {c} : chosen'[w] = chosen[w]
        /\ \A w \in Workers : chosen[w] \in Int /\ chosen'[w] \in Int
    BY <1>2, <1>3, <1>5
  <2>3. SumOver(chosen', Workers) = SumOver(chosen, Workers) + 1
    <3> DEFINE f == chosen
               g == chosen'
               d == 1
    <3>1. /\ \A w \in Workers : f[w] \in Int /\ g[w] \in Int
          /\ d \in Int /\ g[c] = f[c] + d /\ \A w \in Workers \ {c} : g[w] = f[w]
      BY <2>2
    <3> HIDE DEF c, f, g, d
    <3>2. SumOver(g, Workers) = SumOver(f, Workers) + d
      BY <1>3, <2>1, <3>1, SumShift
    <3> QED BY <3>2 DEF f, g, d
  <2>4. SumOver(chosen, Workers)' = SumOver(chosen', Workers)
    BY DEF SumOver, Workers, MapThenSumSet, MapThenFoldSet
  <2> QED BY <2>3, <2>4
<1>7. c \notin T /\ LET d == IF c + 1 = N THEN 0 ELSE c + 1
                    IN  \/ Arc(FirstTurn, d) = T \cup {c}
                        \/ Arc(FirstTurn, d) = {} /\ T \cup {c} = Workers
  <2> HIDE DEF c
  <2> QED BY <1>3, ArcGrows
<1>8. FairShares(k, T)
  BY <1>1
<1>9. CASE /\ Offset' = Offset + 1
           /\ FirstTurn' = FirstTurn
           /\ c' = IF c + 1 = N THEN 0 ELSE c + 1
  <2> DEFINE U == Arc(FirstTurn, IF c + 1 = N THEN 0 ELSE c + 1)
  <2>1. U = T \cup {c} \/ (U = {} /\ T \cup {c} = Workers)
    BY <1>7
  <2>2. Arc(FirstTurn, c)' = U
    BY <1>9 DEF Arc, Workers
  <2>3. \A v, w \in Workers : chosen'[v] - chosen'[w] <= k + Share(v, U) - Share(w, U)
    <3>1. chosen' = [chosen EXCEPT ![c] = @ + 1]
      OBVIOUS
    <3> HIDE DEF c, T, U
    <3> QED BY <1>2, <1>3, <1>4, <1>7, <1>8, <2>1, <3>1, SharesStep
  <2>4. SumOver(chosen, Workers)' = k * HalfRange + Offset'
    BY <1>1, <1>3, <1>6, <1>9, Ranges
  <2>5. FairShares(k, Arc(FirstTurn, c))'
    <3>1. \A v, w \in Workers :
             chosen'[v] - chosen'[w] <= k + Share(v, Arc(FirstTurn, c)') - Share(w, Arc(FirstTurn, c)')
      BY <2>2, <2>3
    <3>2. Workers' = Workers
      BY DEF Workers
    <3> QED BY <3>1, <3>2 DEF FairShares, Share
  <2> QED BY <1>3, <1>5, <2>4, <2>5 DEF Turns
<1>10. CASE /\ Offset + 1 = HalfRange /\ Offset' = 0
            /\ FirstTurn' = SelectWorker'
  <2>1. \A v, w \in Workers : chosen'[v] - chosen'[w] <= k + 1
    <3> DEFINE U == T \cup {c}
    <3>1. chosen' = [chosen EXCEPT ![c] = @ + 1] /\ U = T \cup {c}
      OBVIOUS
    <3> HIDE DEF c, T, U
    <3> QED BY <1>2, <1>3, <1>4, <1>7, <1>8, <3>1, SharesStep
  <2>2. Arc(FirstTurn, c)' = {}
    <3>1. c' \in Int
      BY <1>3, CounterStep, Ranges DEF SelectWorker, AsSize
    <3> QED BY <1>10, <3>1 DEF Arc
  <2>3. SumOver(chosen, Workers)' = (k + 1) * HalfRange + Offset'
    BY <1>1, <1>3, <1>6, <1>10, Ranges
  <2>4. FairShares(k + 1, Arc(FirstTurn, c))'
    BY <1>5, <2>1, <2>2 DEF FairShares, Share, Workers
  <2>5. k + 1 \in Nat
    OBVIOUS
  <2> QED BY <1>3, <1>5, <2>3, <2>4, <2>5 DEF Turns
<1> QED BY <1>2, <1>9, <1>10, CounterStep

(* Only a call without a worker of its own moves the counter.              *)
LEMMA TurnsStep == TypeOK /\ Turns /\ [Next]_vars => Turns'
<1> SUFFICES ASSUME TypeOK, Turns, [Next]_vars PROVE Turns'
  OBVIOUS
<1>1. CASE UNCHANGED <<m_next_worker, chosen>>
  <2>1. /\ Offset' = Offset /\ FirstTurn' = FirstTurn /\ SelectWorker' = SelectWorker
        /\ \A s, c : Arc(s, c)' = Arc(s, c)
    BY <1>1 DEF Offset, FirstTurn, SelectWorker, AsSize, Arc, Workers
  <2>2. SumOver(chosen, Workers)' = SumOver(chosen, Workers)
    BY <1>1 DEF SumOver, Workers, MapThenSumSet, MapThenFoldSet
  <2>3. \A k : FairShares(k, Arc(FirstTurn, SelectWorker))' <=> FairShares(k, Arc(FirstTurn, SelectWorker))
    BY <1>1, <2>1 DEF FairShares, Share, Workers
  <2> QED BY <1>1, <2>1, <2>2, <2>3 DEF Turns, Workers
<1>2. ASSUME NEW e \in Engines, NEW isOrder \in BOOLEAN, NEW i \in WorkerIds, Send(e, isOrder, i)
      PROVE  Turns'
  <2>1. CASE i < 0
    BY <1>2, <2>1, TurnTaken DEF Send
  <2>2. CASE ~(i < 0)
    BY <1>1, <1>2, <2>2 DEF Send
  <2> QED BY <2>1, <2>2
<1>3. ASSUME NEW e \in Engines,
             Acquire(e) \/ Copy(e) \/ PushBegin(e) \/ PushEnd(e) \/ Count(e) \/ Release(e)
      PROVE  Turns'
  BY <1>1, <1>3 DEF Acquire, Copy, PushBegin, PushEnd, Count, Release, counters, logVars
<1>4. ASSUME NEW w \in Workers, ReceiveReport(w) PROVE Turns'
  BY <1>1, <1>4 DEF ReceiveReport, counters, logVars
<1>5. CASE UNCHANGED vars
  BY <1>1, <1>5 DEF vars, counters, logVars
<1> QED BY <1>2, <1>3, <1>4, <1>5 DEF Next

(* send_report's round robin: with the number of half ranges the counter   *)
(* has gone through as the number of turns that may have been cut short,   *)
(* no worker gets more reports than another by more than one and that.     *)
THEOREM WorkersTakeTurns == Spec => []RoundRobin
<1>1. Init => Turns
  <2> SUFFICES ASSUME Init PROVE Turns
    OBVIOUS
  <2>1. SumOver(chosen, Workers) = 0
    <3>1. \A w \in Workers \ {} : chosen[w] \in Int /\ chosen[w] = 0
      BY DEF Init
    <3>2. SumOver(chosen, {}) = SumOver(chosen, Workers)
      BY <3>1, WorkersFinite, SumSubset
    <3> QED BY <3>2, SumEmpty
  <2>2. Offset = 0 /\ FirstTurn = 0 /\ SelectWorker = 0
    <3>1. (0 % NUM_WORKERS) = 0
      BY Ranges
    <3> QED BY <3>1 DEF Init, Offset, FirstTurn, SelectWorker, AsSize
  <2>3. Arc(FirstTurn, SelectWorker) = {}
    BY <2>2 DEF Arc
  <2>4. FairShares(0, {})
    BY DEF FairShares, Share, Init
  <2>5. SumOver(chosen, Workers) = 0 * HalfRange + Offset
    BY <2>1, <2>2, Ranges
  <2> QED BY <2>3, <2>4, <2>5, Ranges DEF Turns, Init
<1>2. TypeOK /\ Turns /\ [Next]_vars => Turns'
  BY TurnsStep
<1>3. Turns => RoundRobin
  <2> SUFFICES ASSUME Turns, NEW v \in Workers, NEW w \in Workers
               PROVE  chosen[v] - chosen[w] <= 1 + (FoldFunction(+, 0, chosen) \div HalfRange)
    BY DEF RoundRobin, HalfRange
  <2>1. PICK k \in Nat : /\ SumOver(chosen, Workers) = k * HalfRange + Offset
                         /\ FairShares(k, Arc(FirstTurn, SelectWorker))
    BY DEF Turns
  <2> DEFINE tickets == SumOver(chosen, Workers)
             T == Arc(FirstTurn, SelectWorker)
  <2>2. Offset \in 0 .. HalfRange - 1
    BY Ranges DEF Turns, Offset
  <2>3. tickets \in Int
    BY <2>1, <2>2, Ranges
  <2>4. (tickets \div HalfRange) = k
    <3> DEFINE n == Offset
               h == HalfRange
    <3>1. tickets = k * h + n /\ n \in 0 .. h - 1 /\ h \in Nat \ {0}
      BY <2>1, <2>2, Ranges
    <3> HIDE DEF tickets, n, h
    <3>2. (tickets \div h) = k
      BY <2>3, <3>1, DivisionUnique
    <3> QED BY <3>2 DEF h
  <2>5. chosen[v] - chosen[w] <= k + 1
    <3>1. chosen[v] - chosen[w] <= k + Share(v, T) - Share(w, T)
      BY <2>1 DEF FairShares
    <3>2. Share(v, T) \in {0, 1} /\ Share(w, T) \in {0, 1} /\ chosen[v] \in Int /\ chosen[w] \in Int
      BY DEF Share, Turns
    <3> HIDE DEF T
    <3> QED BY <3>1, <3>2
  <2> DEFINE sum == FoldFunction(+, 0, chosen)
             q == sum \div HalfRange
  <2>6. q = k
    <3>1. sum = tickets
      BY FoldIsSum DEF Turns
    <3> HIDE DEF sum, tickets
    <3> QED BY <2>4, <3>1
  <2>7. chosen[v] - chosen[w] <= 1 + q
    <3> HIDE DEF q
    <3> QED BY <2>5, <2>6
  <2> QED BY <2>7
<1> QED BY <1>1, <1>2, <1>3, GatewayTypeCorrect, PTL DEF Spec
=============================================================================
