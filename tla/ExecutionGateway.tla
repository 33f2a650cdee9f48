-------------------------- MODULE ExecutionGateway --------------------------
(***************************************************************************)
(* The gateway that all engines share (gateway/execution_gateway.cpp).     *)
(* Any engine's worker sends; a queue and a consumer belong to each        *)
(* gateway worker.  The pool of reports hands out any slot that is free.   *)
(*                                                                         *)
(* A queue is made for one producer.  Its push is modelled as a read of    *)
(* the tail and a later store behind it, so that two engines that push     *)
(* into one queue at once may lose reports; "raced" remembers that it      *)
(* happened, and nothing in src/ prevents it.  Of what such a race may do  *)
(* to a queue, the loss of reports is what is modelled.                    *)
(***************************************************************************)
EXTENDS Integers, SequencesExt, FiniteSets

CONSTANTS
    Engines,        \* the threads that send
    NUM_WORKERS,    \* add_worker is called before the first report
    Slots,          \* of the ReportPool: 65536
    QUEUE_SIZE,     \* of a ReportQueue: 4096
    INT_RANGE,      \* values of m_next_worker: 2^32
    SIZE_RANGE,     \* values of size_t: 2^64
    WorkerIds,      \* what callers pass: -1 in src/, others in the tests
    MaxSends        \* bound on the calls of send_report

ASSUME GatewayAssumption ==
    /\ NUM_WORKERS \in Nat \ {0} /\ INT_RANGE \in Nat \ {0, 1} /\ SIZE_RANGE \in Nat
    /\ WorkerIds \subseteq Int

Workers == 0 .. NUM_WORKERS - 1

VARIABLES
    m_next_worker, m_total_reports, m_total_orders,
    free,       \* slots in the pool
    content,    \* what is in a slot: the number of a report
    uses,       \* how often each slot was acquired
    queue,      \* of each worker: slot, report sent, and the slot's uses then
    call,       \* of each engine: its call of send_report
    sends,      \* calls begun
    chosen,     \* of them, those sent round robin to each worker
    received,   \* reports received, of all workers
    raced       \* have two pushes into one queue overlapped?

counters == <<m_next_worker, m_total_reports, m_total_orders>>
poolVars == <<free, content, uses>>
logVars  == <<sends, chosen>>
vars == <<counters, poolVars, queue, call, logVars, received, raced>>

NoCall == [at |-> "idle", report |-> 0, worker |-> 0, slot |-> 0, tail |-> 0]

Init ==
    /\ m_next_worker = 0 /\ m_total_reports = 0 /\ m_total_orders = 0
    /\ free = Slots
    /\ content = [s \in Slots |-> 0]
    /\ uses = [s \in Slots |-> 0]
    /\ queue = [w \in Workers |-> << >>]
    /\ call = [e \in Engines |-> NoCall]
    /\ sends = 0
    /\ chosen = [w \in Workers |-> 0]
    /\ received = 0
    /\ raced = FALSE

-----------------------------------------------------------------------------
(* fetch_add wraps; the modulus is taken of the value as a size_t.         *)
Increment(n) == IF n + 1 = INT_RANGE \div 2 THEN -(INT_RANGE \div 2) ELSE n + 1
AsSize(n) == IF n < 0 THEN SIZE_RANGE + n ELSE n

(* A mutant of SelectWorker: the last worker is left out.                  *)
SelectButLast == AsSize(m_next_worker) % (NUM_WORKERS - 1)

SelectWorker == AsSize(m_next_worker) % NUM_WORKERS

(* send_order, for the fills of an order, or send_report, for a rejection; *)
(* the choice of the worker.  Workers that do not exist are refused.       *)
Send(e, isOrder, worker_id) ==
    /\ call[e].at = "idle"
    /\ sends < MaxSends
    /\ sends' = sends + 1
    /\ m_total_orders' = IF isOrder THEN m_total_orders + 1 ELSE m_total_orders
    /\ LET w == IF worker_id < 0 THEN SelectWorker ELSE worker_id
       IN  /\ chosen' = IF worker_id < 0 THEN [chosen EXCEPT ![w] = @ + 1] ELSE chosen
           /\ m_next_worker' = IF worker_id < 0 THEN Increment(m_next_worker) ELSE m_next_worker
           /\ call' = IF w >= NUM_WORKERS THEN call
                      ELSE [call EXCEPT ![e] = [at |-> "acquire", report |-> sends + 1, worker |-> w,
                                                slot |-> 0, tail |-> 0]]
    /\ UNCHANGED <<m_total_reports, poolVars, queue, received, raced>>

(* A mutant of Acquire: only the raw pointer is kept, and the slot goes    *)
(* back to the pool at the end of the statement.                           *)
AcquireRaw(e) ==
    /\ call[e].at = "acquire"
    /\ \E s \in free :
          /\ uses' = [uses EXCEPT ![s] = @ + 1]
          /\ call' = [call EXCEPT ![e].at = "copy", ![e].slot = s]
    /\ UNCHANGED <<counters, free, content, queue, logVars, received, raced>>

(* A null pointer from an empty pool is used.                              *)
Acquire(e) ==
    /\ call[e].at = "acquire"
    /\ \/ \E s \in free :
             /\ free' = free \ {s}
             /\ uses' = [uses EXCEPT ![s] = @ + 1]
             /\ call' = [call EXCEPT ![e].at = "copy", ![e].slot = s]
       \/ /\ free = {}
          /\ call' = [call EXCEPT ![e].at = "crashed"]
          /\ UNCHANGED <<free, uses>>
    /\ UNCHANGED <<counters, content, queue, logVars, received, raced>>

Copy(e) ==
    /\ call[e].at = "copy"
    /\ content' = [content EXCEPT ![call[e].slot] = call[e].report]
    /\ call' = [call EXCEPT ![e].at = "push"]
    /\ UNCHANGED <<counters, free, uses, queue, logVars, received, raced>>

(* A mutant of PushBegin: a full queue is noticed, and counted all the same. *)
CountRefused(e) ==
    /\ call[e].at = "push"
    /\ call' = [call EXCEPT ![e].at = IF Len(queue[call[e].worker]) < QUEUE_SIZE
                                      THEN "store" ELSE "count",
                            ![e].tail = Len(queue[call[e].worker])]
    /\ UNCHANGED <<counters, poolVars, queue, logVars, received, raced>>

(* The push finds the queue full, or a place behind the last report.       *)
PushBegin(e) ==
    /\ call[e].at = "push"
    /\ LET w == call[e].worker
       IN  /\ call' = [call EXCEPT ![e].at = IF Len(queue[w]) < QUEUE_SIZE
                                             THEN "store" ELSE "release",
                                   ![e].tail = Len(queue[w])]
           /\ raced' = (raced \/ \E d \in Engines \ {e} : call[d].at = "store" /\ call[d].worker = w)
    /\ UNCHANGED <<counters, poolVars, queue, logVars, received>>

(* The part of a queue before a place, which may be behind the head if the *)
(* consumer has taken, meanwhile, what another engine stored there, or     *)
(* past the end if another engine has stored at an earlier place.          *)
Before(q, place) == SubSeq(q, 1, IF place < Len(q) THEN place ELSE Len(q))

PushEnd(e) ==
    LET c == call[e]
        entry == [slot |-> c.slot, report |-> c.report, uses |-> uses[c.slot]]
    IN  /\ c.at = "store"
        /\ queue' = [queue EXCEPT ![c.worker] =
                        IF c.tail >= 0 THEN Append(Before(@, c.tail), entry) ELSE << >>]
        /\ call' = [call EXCEPT ![e].at = "count"]
        /\ UNCHANGED <<counters, poolVars, logVars, received, raced>>

Count(e) ==
    /\ call[e].at = "count"
    /\ m_total_reports' = m_total_reports + 1
    /\ call' = [call EXCEPT ![e].at = "release"]
    /\ UNCHANGED <<m_next_worker, m_total_orders, poolVars, queue, logVars, received, raced>>

(* report_ptr goes out of scope: the slot is free while the queue, or the  *)
(* consumer, still points to it.                                           *)
Release(e) ==
    /\ call[e].at = "release"
    /\ free' = free \cup {call[e].slot}
    /\ call' = [call EXCEPT ![e] = NoCall]
    /\ UNCHANGED <<counters, content, uses, queue, logVars, received, raced>>

(* receive_report, by the worker's consumer; the oldest report, or null.   *)
(* Pushes under way count their place from the new head.                   *)
ReceiveReport(w) ==
    /\ queue[w] # << >>
    /\ queue' = [queue EXCEPT ![w] = Tail(@)]
    /\ received' = received + 1
    /\ call' = [e \in Engines |-> IF call[e].at = "store" /\ call[e].worker = w /\ call[e].tail >= 0
                                  THEN [call[e] EXCEPT !.tail = @ - 1] ELSE call[e]]
    /\ UNCHANGED <<counters, poolVars, logVars, raced>>

Next ==
    \/ \E e \in Engines :
          \/ \E isOrder \in BOOLEAN, w \in WorkerIds : Send(e, isOrder, w)
          \/ Acquire(e) \/ Copy(e) \/ PushBegin(e) \/ PushEnd(e) \/ Count(e) \/ Release(e)
    \/ \E w \in Workers : ReceiveReport(w)

Spec == Init /\ [][Next]_vars

-----------------------------------------------------------------------------
(* The members and the engines' calls have their types.                   *)
Call == [at : {"idle", "acquire", "copy", "push", "store", "count", "release", "crashed"},
         report : Nat, worker : Workers, slot : Slots \cup {0}, tail : Int]

Entry == [slot : Slots, report : Nat, uses : Nat]

TypeOK ==
    /\ m_next_worker \in Int
    /\ free \subseteq Slots
    /\ content \in [Slots -> Nat]
    /\ uses \in [Slots -> Nat]
    /\ queue \in [Workers -> Seq(Entry)]
    /\ call \in [Engines -> Call]
    /\ sends \in Nat

(* A report's memory goes back to the pool before anybody has received it. *)
(* A consumer that comes before the slot is acquired again finds what was  *)
(* sent; however the engines interleave, no other report is written there. *)
ReportIntact ==
    \A w \in Workers : \A i \in DOMAIN queue[w] :
        LET r == queue[w][i]
        IN  uses[r.slot] = r.uses => content[r.slot] = r.report

(* m_total_reports is the number of reports that went through the queues,  *)
(* but for those counted a moment later, unless two engines met in one     *)
(* queue.                                                                  *)
ReportsCounted ==
    ~raced => m_total_reports + Cardinality({e \in Engines : call[e].at = "count"})
                  = received + FoldFunction(+, 0, [w \in Workers |-> Len(queue[w])])

(* Round robin: the workers' shares differ by one report, and by one more  *)
(* each time the counter has passed its largest value or zero.             *)
RoundRobin ==
    LET tickets == FoldFunction(+, 0, chosen)
    IN  \A v, w \in Workers : chosen[v] - chosen[w] <= 1 + tickets \div (INT_RANGE \div 2)

=============================================================================
