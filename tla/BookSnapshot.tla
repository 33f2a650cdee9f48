---------------------------- MODULE BookSnapshot ----------------------------
(***************************************************************************)
(* BookSnapshotManager (book/book_snapshot.cpp): one writer publishes      *)
(* copies of the book in a few nodes, any number of readers pin the        *)
(* published node with a reference count and read it without a lock.       *)
(*                                                                         *)
(* Every access to a variable that the manager's users share is a step;    *)
(* the reads of the book that fill a node are one (CaptureData): what they *)
(* find of a book that changes meanwhile is a data race.  The program runs *)
(* on x86 (it reads the TSC), where a plain store may sit in the storing   *)
(* thread's store buffer: `wbuf' holds the writer's store of m_current     *)
(* until it becomes visible.  Stores leave the buffer in order, so the     *)
(* contents of a node are visible before the pointer to it and need no     *)
(* buffer of their own.  Read-modify-write instructions empty the buffer   *)
(* first.                                                                  *)
(*                                                                         *)
(* Of the book two words matter: its sequence number, and its content,     *)
(* here the number of the change it reflects.  A change updates the        *)
(* content first and the sequence number after it, as every operation of   *)
(* OrderBook does, and the writer may run in between.                      *)
(***************************************************************************)
EXTENDS Integers, FiniteSets

CONSTANTS
    NUM_NODES,    \* nodes of the manager
    Readers,      \* threads that call get_snapshot and release_snapshot
    MaxChanges    \* bound on the changes of the book

ASSUME NodesAssumption == NUM_NODES \in Nat \ {0}

ASSUME ReadersAssumption == IsFiniteSet(Readers)

ASSUME ChangesAssumption == MaxChanges \in Nat

Nodes == 0 .. NUM_NODES - 1

Snapshot == [seq : Nat, data : Nat]

VARIABLES
    bookSeq,    \* the book's m_sequence
    bookData,   \* the book's content: the last change it reflects
    current,    \* m_current, as the readers see it
    wbuf,       \* a store of m_current in the writer's store buffer
    node,       \* m_nodes[n].snapshot
    ref,        \* m_nodes[n].ref_count
    wpc,        \* where update() is
    wview,      \* find_free_node's local `current'
    scan,       \* the node its loop looks at
    target,     \* update's local `free_node'
    rpc,        \* where each reader's get_snapshot is
    rnode       \* its local `node', and the node of the snapshot it holds

bookVars   == <<bookSeq, bookData>>
writerVars == <<wpc, wview, scan, target>>
readerVars == <<rpc, rnode>>
vars == <<bookVars, current, wbuf, node, ref, writerVars, readerVars>>

(* Every pointer is to a node of the manager.                              *)
TypeOK ==
    /\ bookSeq \in Nat /\ bookData \in Nat
    /\ current \in Nodes
    /\ wbuf \in SUBSET Nodes
    /\ node \in [Nodes -> Snapshot]
    /\ ref \in [Nodes -> Int]
    /\ wpc \in {"idle", "scan", "seq", "data", "publish", "count"}
    /\ wview \in Nodes /\ scan \in 0 .. NUM_NODES /\ target \in Nodes
    /\ rpc \in [Readers -> {"idle", "load", "pin", "check", "undo", "reading"}]
    /\ rnode \in [Readers -> Nodes]

Init ==
    /\ bookSeq = 0 /\ bookData = 0
    /\ current = 0
    /\ wbuf = {}
    /\ node = [n \in Nodes |-> [seq |-> 0, data |-> 0]]
    /\ ref = [n \in Nodes |-> 0]
    /\ wpc = "idle" /\ wview = 0 /\ scan = 0 /\ target = 0
    /\ rpc = [r \in Readers |-> "idle"]
    /\ rnode = [r \in Readers |-> 0]

-----------------------------------------------------------------------------
(* A call that changes the book: its content, then its sequence number.    *)
ChangeBook ==
    /\ bookData = bookSeq
    /\ bookData < MaxChanges
    /\ bookData' = bookData + 1
    /\ UNCHANGED <<bookSeq, current, wbuf, node, ref, writerVars, readerVars>>

BumpSequence ==
    /\ bookSeq < bookData
    /\ bookSeq' = bookSeq + 1
    /\ UNCHANGED <<bookData, current, wbuf, node, ref, writerVars, readerVars>>

-----------------------------------------------------------------------------
(* update(): find_free_node loads m_current.  A thread sees its own store  *)
(* that is still in the buffer.                                            *)
UpdateBegin ==
    /\ wpc = "idle"
    /\ wview' \in (IF wbuf = {} THEN {current} ELSE wbuf)
    /\ scan' = 0
    /\ wpc' = "scan"
    /\ UNCHANGED <<bookVars, current, wbuf, node, ref, target, readerVars>>

(* Mutants of Free: the pins are not looked at; only nodes behind the      *)
(* published one are tried.                                                *)
FreeUnlessCurrent(n) == n # wview

FreeBehindCurrent(n) == n > wview /\ ref[n] = 0

Free(n) == n # wview /\ ref[n] = 0

(* One turn of its loop: the published node and pinned ones are passed.    *)
ScanNode ==
    /\ wpc = "scan"
    /\ scan < NUM_NODES
    /\ IF Free(scan)
       THEN /\ target' = scan
            /\ wpc' = "seq"
            /\ UNCHANGED scan
       ELSE /\ scan' = scan + 1
            /\ UNCHANGED <<target, wpc>>
    /\ UNCHANGED <<bookVars, current, wbuf, node, ref, wview, readerVars>>

(* All nodes are in use: this update is skipped.                           *)
SkipUpdate ==
    /\ wpc = "scan"
    /\ scan = NUM_NODES
    /\ wpc' = "idle"
    /\ UNCHANGED <<bookVars, current, wbuf, node, ref, wview, scan, target, readerVars>>

(* capture_snapshot: the sequence number first, then the rest.             *)
CaptureSequence ==
    /\ wpc = "seq"
    /\ node' = [node EXCEPT ![target].seq = bookSeq]
    /\ wpc' = "data"
    /\ UNCHANGED <<bookVars, current, wbuf, ref, wview, scan, target, readerVars>>

(* A mutant of CaptureData: the content is not copied.                     *)
CaptureNothing ==
    /\ wpc = "data"
    /\ wpc' = "publish"
    /\ UNCHANGED <<bookVars, current, wbuf, node, ref, wview, scan, target, readerVars>>

CaptureData ==
    /\ wpc = "data"
    /\ node' = [node EXCEPT ![target].data = bookData]
    /\ wpc' = "publish"
    /\ UNCHANGED <<bookVars, current, wbuf, ref, wview, scan, target, readerVars>>

(* m_current.store(free_node): into the buffer.                            *)
Publish ==
    /\ wpc = "publish"
    /\ wbuf' = {target}
    /\ wpc' = "count"
    /\ UNCHANGED <<bookVars, current, node, ref, wview, scan, target, readerVars>>

(* The processor makes a buffered store visible at a time of its own.      *)
FlushBuffer ==
    /\ \E n \in wbuf : current' = n
    /\ wbuf' = {}
    /\ UNCHANGED <<bookVars, node, ref, writerVars, readerVars>>

(* m_update_count.fetch_add: its value is a statistic, but it is a locked  *)
(* instruction, and empties the buffer before update() returns.            *)
CountUpdate ==
    /\ wpc = "count"
    /\ IF wbuf = {} THEN UNCHANGED current ELSE \E n \in wbuf : current' = n
    /\ wbuf' = {}
    /\ wpc' = "idle"
    /\ UNCHANGED <<bookVars, node, ref, wview, scan, target, readerVars>>

WriterStep ==
    \/ UpdateBegin \/ ScanNode \/ SkipUpdate \/ CaptureSequence
    \/ CaptureData \/ Publish \/ CountUpdate

-----------------------------------------------------------------------------
(* get_snapshot() is called.                                               *)
GetSnapshot(r) ==
    /\ rpc[r] = "idle"
    /\ rpc' = [rpc EXCEPT ![r] = "load"]
    /\ UNCHANGED <<bookVars, current, wbuf, node, ref, writerVars, rnode>>

LoadCurrent(r) ==
    /\ rpc[r] = "load"
    /\ rnode' = [rnode EXCEPT ![r] = current]
    /\ rpc' = [rpc EXCEPT ![r] = "pin"]
    /\ UNCHANGED <<bookVars, current, wbuf, node, ref, writerVars>>

Pin(r) ==
    /\ rpc[r] = "pin"
    /\ ref' = [ref EXCEPT ![rnode[r]] = @ + 1]
    /\ rpc' = [rpc EXCEPT ![r] = "check"]
    /\ UNCHANGED <<bookVars, current, wbuf, node, writerVars, rnode>>

(* A mutant of Check: m_current is not loaded again.                       *)
CheckNothing(r) ==
    /\ rpc[r] = "check"
    /\ rpc' = [rpc EXCEPT ![r] = "reading"]
    /\ UNCHANGED <<bookVars, current, wbuf, node, ref, writerVars, rnode>>

(* The second load of m_current decides whether the pin came in time.      *)
Check(r) ==
    /\ rpc[r] = "check"
    /\ rpc' = [rpc EXCEPT ![r] = IF rnode[r] = current THEN "reading" ELSE "undo"]
    /\ UNCHANGED <<bookVars, current, wbuf, node, ref, writerVars, rnode>>

(* A mutant of Undo: a retry keeps its pin.                                *)
UndoNothing(r) ==
    /\ rpc[r] = "undo"
    /\ rpc' = [rpc EXCEPT ![r] = "load"]
    /\ UNCHANGED <<bookVars, current, wbuf, node, ref, writerVars, rnode>>

Undo(r) ==
    /\ rpc[r] = "undo"
    /\ ref' = [ref EXCEPT ![rnode[r]] = @ - 1]
    /\ rpc' = [rpc EXCEPT ![r] = "load"]
    /\ UNCHANGED <<bookVars, current, wbuf, node, writerVars, rnode>>

(* release_snapshot() *)
Release(r) ==
    /\ rpc[r] = "reading"
    /\ ref' = [ref EXCEPT ![rnode[r]] = @ - 1]
    /\ rpc' = [rpc EXCEPT ![r] = "idle"]
    /\ UNCHANGED <<bookVars, current, wbuf, node, writerVars, rnode>>

(* A reader that has begun get_snapshot runs on, and releases what it got. *)
ReaderStep(r) == LoadCurrent(r) \/ Pin(r) \/ Check(r) \/ Undo(r) \/ Release(r)

Next ==
    \/ ChangeBook \/ BumpSequence
    \/ WriterStep \/ FlushBuffer
    \/ \E r \in Readers : GetSnapshot(r) \/ ReaderStep(r)

Spec == Init /\ [][Next]_vars

(* No thread blocks: the writer calls update() in a loop, a call of the    *)
(* book comes to its end, and readers release what they hold.              *)
FairSpec ==
    /\ Spec
    /\ WF_vars(BumpSequence)
    /\ WF_vars(WriterStep)
    /\ \A r \in Readers : WF_vars(ReaderStep(r))

-----------------------------------------------------------------------------
(* What a reader holds does not change under it: capture_snapshot never    *)
(* writes into a node that get_snapshot returned and that is not released. *)
SnapshotStable ==
    [][\A r \in Readers :
          (rpc[r] = "reading" /\ rpc'[r] = "reading") => node'[rnode[r]] = node[rnode[r]]
      ]_vars

(* The reference counts are the pins: none is lost by a retry, none is     *)
(* taken back twice.                                                       *)
Pins(n) == {r \in Readers : rpc[r] \in {"check", "undo", "reading"} /\ rnode[r] = n}

RefCountsExact == \A n \in Nodes : ref[n] = Cardinality(Pins(n))

(* A snapshot that a reader got is at least as new as its sequence number  *)
(* says, although the book changed while it was copied.                    *)
HeldNotOlderThanSequence ==
    \A r \in Readers : rpc[r] = "reading" => node[rnode[r]].data >= node[rnode[r]].seq

(* With two nodes more than readers, update() never finds all nodes in use *)
(* although a reader may keep one node pinned and just have pinned another *)
(* by a stale pointer.                                                     *)
NoUpdateSkipped ==
    Cardinality(Readers) + 2 <= NUM_NODES => (wpc = "scan" => scan < NUM_NODES)

(* Whatever the number of readers, a change of the book is published in    *)
(* the end, even if updates are skipped for a while.                       *)
ChangesGetThrough ==
    \A v \in 1 .. MaxChanges : bookSeq = v ~> node[current].seq >= v

-----------------------------------------------------------------------------
(* The manager is an atomic register of snapshots: see SnapshotRegister.   *)
Reg == INSTANCE SnapshotRegister WITH
    value <- node[current],
    held  <- [r \in Readers |-> IF rpc[r] = "reading" THEN {node[rnode[r]]} ELSE {}]

ImplementsRegister == Reg!Spec
=============================================================================
