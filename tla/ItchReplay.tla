----------------------------- MODULE ItchReplay -----------------------------
(***************************************************************************)
(* A file of market data on its way to the engines: the loop of            *)
(* tools/itch_parser.cpp, which reads it in chunks of a fixed size, and    *)
(* FeedHandler::process, which is called once per chunk and keeps nothing  *)
(* from one call to the next.  A chunk as large as the file is what        *)
(* FeedHandler::process_file does.                                         *)
(***************************************************************************)
EXTENDS Itch, FiniteSets

CONSTANTS
    Files,       \* sequences of messages that the file may hold
    Chunks,      \* sizes of the buffer: 64 KB
    Symbols,     \* of the engines
    QUEUE_SIZE,  \* m_incoming_orders: 65536
    POOL         \* orders in the parser's pool: 100000

VARIABLES
    file,      \* the messages
    bytes,     \* and their bytes
    chunk,     \* size of the buffer
    pc,        \* "read", "process", "drain", "done" or "crashed"
    next,      \* offset of the next chunk
    ptr, end,  \* locals of process, as offsets into the file
    count,     \* m_message_count and m_error_count
    calls,     \* the callbacks made
    pending,   \* orders taken from the pool
    queue      \* m_incoming_orders of each engine

vars == <<file, bytes, chunk, pc, next, ptr, end, count, calls, pending, queue>>

Concat(ms) == FoldLeft(LAMBDA b, m : b \o Encode(m), << >>, ms)

Init ==
    /\ file \in Files
    /\ bytes = Concat(file)
    /\ chunk \in Chunks \cup {Len(bytes)}
    /\ pc = "read"
    /\ next = 0 /\ ptr = 0 /\ end = 0
    /\ count = [message |-> 0, error |-> 0]
    /\ calls = << >>
    /\ pending = 0
    /\ queue = [s \in Symbols |-> << >>]

-----------------------------------------------------------------------------
fileVars == <<file, bytes, chunk>>

(* file.read fills the buffer, or what there is left to read.              *)
ReadChunk ==
    /\ pc = "read"
    /\ next < Len(bytes)
    /\ ptr' = next
    /\ end' = IF next + chunk < Len(bytes) THEN next + chunk ELSE Len(bytes)
    /\ next' = end'
    /\ pc' = "process"
    /\ UNCHANGED <<fileVars, count, calls, pending, queue>>

EndOfFile ==
    /\ pc = "read"
    /\ next = Len(bytes)
    /\ pc' = "drain"
    /\ UNCHANGED <<fileVars, next, ptr, end, count, calls, pending, queue>>

-----------------------------------------------------------------------------
MsgLen == 256 * bytes[ptr + 1] + bytes[ptr + 2]

(* A message of two bytes at the end of the buffer has its type behind it. *)
Types == IF ptr + 2 < end THEN {bytes[ptr + 3]} ELSE {0, A}

Framed == MsgLen >= 2 /\ ptr + MsgLen <= end

(* A mutant of BadFrame: an incomplete message ends the loop silently.     *)
BadFrameSilent ==
    /\ pc = "process"
    /\ ptr + 2 <= end /\ ~Framed
    /\ pc' = "read"
    /\ UNCHANGED <<fileVars, next, ptr, end, calls, pending, queue, count>>

(* The rest of the chunk is given up.                                      *)
BadFrame ==
    /\ pc = "process"
    /\ ptr + 2 <= end /\ ~Framed
    /\ count' = [count EXCEPT !.error = @ + 1]
    /\ pc' = "read"
    /\ UNCHANGED <<fileVars, next, ptr, end, calls, pending, queue>>

(* A mutant of EndOfChunk: what is left of the chunk is read again.        *)
EndOfChunkCarries ==
    /\ pc = "process"
    /\ ptr + 2 > end
    /\ next' = ptr /\ end' = ptr
    /\ pc' = "read"
    /\ UNCHANGED <<fileVars, ptr, count, calls, pending, queue>>

(* process returns; a last single byte is not looked at.                   *)
EndOfChunk ==
    /\ pc = "process"
    /\ ptr + 2 > end
    /\ pc' = "read"
    /\ UNCHANGED <<fileVars, next, ptr, end, count, calls, pending, queue>>

(* A type that is not parsed, or a message too short for its type.         *)
SkipMessage ==
    /\ pc = "process"
    /\ ptr + 2 <= end /\ Framed
    /\ \E t \in Types :
          \/ t \notin DOMAIN MinLength /\ UNCHANGED count
          \/ /\ t \in DOMAIN MinLength /\ MsgLen < MinLength[t]
             /\ count' = [count EXCEPT !.error = @ + 1]
    /\ ptr' = ptr + MsgLen
    /\ UNCHANGED <<fileVars, pc, next, end, calls, pending, queue>>

(* The callback of itch_parser for add orders.  The orders stay in the     *)
(* pool's memory until the program ends, and an empty pool's null pointer  *)
(* is used; a full queue drops the order.                                  *)
Route(m) ==
    IF m.kind # "add" \/ m.symbol \notin Symbols THEN UNCHANGED <<pending, queue, pc>>
    ELSE IF pending = POOL THEN pc' = "crashed" /\ UNCHANGED <<pending, queue>>
    ELSE /\ pending' = pending + 1
         /\ queue' = IF Len(queue[m.symbol]) < QUEUE_SIZE
                     THEN [queue EXCEPT ![m.symbol] = Append(@, m)] ELSE queue
         /\ pc' = pc

(* The callbacks, then the count.                                          *)
ParseMessage ==
    /\ pc = "process"
    /\ ptr + 2 <= end /\ Framed
    /\ \E t \in Types \cap DOMAIN MinLength :
          /\ MsgLen >= MinLength[t]
          /\ LET m == Parse(t, SubSeq(bytes, ptr + 1, ptr + MsgLen))
             IN  calls' = Append(calls, m) /\ Route(m)
    /\ count' = [count EXCEPT !.message = @ + 1]
    /\ ptr' = ptr + MsgLen
    /\ UNCHANGED <<fileVars, next, end>>

(* "Drain remaining orders": one run_match_cycle for each engine, which    *)
(* empties its queue.                                                      *)
Drain ==
    /\ pc = "drain"
    /\ queue' = [s \in Symbols |-> << >>]
    /\ pc' = "done"
    /\ UNCHANGED <<fileVars, next, ptr, end, count, calls, pending>>

Next == ReadChunk \/ EndOfFile \/ BadFrame \/ EndOfChunk \/ SkipMessage \/ ParseMessage \/ Drain

Spec == Init /\ [][Next]_vars /\ WF_vars(Next)

-----------------------------------------------------------------------------
(* The offsets at which messages begin, and the end of the last.           *)
Boundary(i) == Len(Concat(SubSeq(file, 1, i)))

(* Ends of chunks inside the file; those that cut a message in two.        *)
Ends == {k \in 1 .. Len(bytes) - 1 : k % chunk = 0}
Cuts == {k \in Ends : \A i \in 1 .. Len(file) : k # Boundary(i)}

Parsed(ms) == SelectSeq(ms, LAMBDA m : m.kind # "other")
AddsFor(s, ms) == SelectSeq(ms, LAMBDA m : m.kind = "add" /\ m.symbol = s)

(* Until a chunk ends inside a message, the handler stays in step with the *)
(* file: what the callbacks have been given is exactly what the exchange,  *)
(* or create_itch, has written, field by field and in order.               *)
InStep ==
    (pc = "process" /\ \A k \in Cuts : ptr < k) =>
        \E i \in 0 .. Len(file) : ptr = Boundary(i) /\ calls = Parsed(SubSeq(file, 1, i))

(* "FeedHandler handles all ITCH parsing": when the file is read, either   *)
(* every order for an engine's symbol is waiting for it, if the queue has  *)
(* room, or a chunk has ended inside a message; of that an error remains,  *)
(* if more than one byte of the first such message was in the chunk.       *)
AllWaiting ==
    /\ count.error = 0
    /\ \A s \in Symbols :
          LET orders == AddsFor(s, file)
          IN  queue[s] = SubSeq(orders, 1, IF Len(orders) < QUEUE_SIZE THEN Len(orders)
                                            ELSE QUEUE_SIZE)

FirstCutSeen ==
    \E i \in 0 .. Len(file) - 1, k \in Cuts :
        Boundary(i) + 2 <= k /\ k < Boundary(i + 1) /\ \A j \in Cuts : j >= k

NothingLostSilently ==
    pc = "drain" => /\ Cuts = {} => AllWaiting
                    /\ FirstCutSeen => count.error > 0

(* Whatever lengths it finds in the bytes, the replay comes to an end.     *)
ReplayEnds == <>(pc \in {"done", "crashed"})
=============================================================================
