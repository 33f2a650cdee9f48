------------------------- MODULE BookSnapshotProofs -------------------------
(***************************************************************************)
(* Theorems about BookSnapshot, for any number of nodes and readers and    *)
(* any number of changes of the book.                                      *)
(*                                                                         *)
(* The argument.  The writer's view of m_current is exact while it looks   *)
(* for a node and fills it, because the locked increment at the end of     *)
(* update() has emptied its store buffer (WriterViewExact).  So the node   *)
(* it fills is not the one that readers can validate, and since it saw a   *)
(* reference count of zero and the counts are exact, nobody held it then;  *)
(* a reader that pins it later fails its check (TargetUnheld).  Hence a    *)
(* held node is never written, and the step that makes the store of        *)
(* m_current visible is the instant at which the register changes.         *)
(***************************************************************************)
EXTENDS BookSnapshot, FiniteSetTheorems, TLAPS

(* The writer has a node and has not yet published it.                     *)
Filling == wpc \in {"seq", "data", "publish"}

(* m_current as the writer knows it is what the readers see.               *)
WriterViewExact ==
    /\ wbuf \subseteq {target}
    /\ wpc # "count" => wbuf = {}
    /\ (wpc = "scan" \/ Filling) => wview = current

(* The node that is being filled is neither published nor held.            *)
TargetUnheld ==
    Filling => /\ target # current
               /\ \A r \in Readers : rpc[r] = "reading" => rnode[r] # target

(* The contents of the nodes come from the book's past, and those of the   *)
(* node being published from a state at least as late as any other's.      *)
ContentsOrdered ==
    /\ bookSeq <= bookData
    /\ \A n \in Nodes : /\ node[n].seq <= bookSeq
                        /\ node[n].data <= bookData
                        /\ node[n].seq <= node[n].data \/ (wpc = "data" /\ n = target)
    /\ wpc \in {"data", "publish", "count"} => \A n \in Nodes : node[n].seq <= node[target].seq
    /\ wpc \in {"publish", "count"} => \A n \in Nodes : node[n].data <= node[target].data

(* The inductive invariant of the snapshots.                               *)
IInv ==
    /\ TypeOK
    /\ RefCountsExact
    /\ WriterViewExact
    /\ TargetUnheld
    /\ ContentsOrdered

-----------------------------------------------------------------------------
(* The type invariant is inductive on its own.                             *)
LEMMA TypeStep == TypeOK /\ [Next]_vars => TypeOK'
<1> SUFFICES ASSUME TypeOK, [Next]_vars PROVE TypeOK'
  OBVIOUS
<1> USE DEF TypeOK
<1>1. CASE ChangeBook
  BY <1>1 DEF ChangeBook, bookVars, writerVars, readerVars
<1>2. CASE BumpSequence
  BY <1>2 DEF BumpSequence, writerVars, readerVars
<1>3. CASE UpdateBegin
  <2>1. wview' \in Nodes
    <3>1. CASE wbuf = {}
      BY <1>3, <3>1 DEF UpdateBegin
    <3>2. CASE wbuf # {}
      BY <1>3, <3>2 DEF UpdateBegin
    <3> QED BY <3>1, <3>2
  <2>2. /\ scan' = 0 /\ wpc' = "scan"
        /\ UNCHANGED <<bookSeq, bookData, current, wbuf, node, ref, target, rpc, rnode>>
    BY <1>3 DEF UpdateBegin, bookVars, readerVars
  <2>3. scan' \in 0 .. NUM_NODES
    BY <2>2, NodesAssumption
  <2> QED BY <2>1, <2>2, <2>3
<1>4. CASE ScanNode
  <2>1. scan \in Nodes /\ scan + 1 \in 0 .. NUM_NODES
    BY <1>4, NodesAssumption DEF ScanNode, Nodes
  <2>2. UNCHANGED <<bookSeq, bookData, current, wbuf, node, ref, wview, rpc, rnode>>
    BY <1>4 DEF ScanNode, bookVars, readerVars
  <2>3. CASE Free(scan)
    <3>1. target' = scan /\ wpc' = "seq" /\ scan' = scan
      BY <1>4, <2>3 DEF ScanNode
    <3> QED BY <2>1, <2>2, <3>1
  <2>4. CASE ~Free(scan)
    <3>1. scan' = scan + 1 /\ target' = target /\ wpc' = wpc
      BY <1>4, <2>4 DEF ScanNode
    <3> QED BY <2>1, <2>2, <3>1
  <2> QED BY <2>3, <2>4
<1>5. CASE SkipUpdate
  BY <1>5 DEF SkipUpdate, bookVars, readerVars
<1>6. CASE CaptureSequence
  BY <1>6 DEF CaptureSequence, Snapshot, bookVars, readerVars
<1>7. CASE CaptureData
  BY <1>7 DEF CaptureData, Snapshot, bookVars, readerVars
<1>8. CASE Publish
  BY <1>8 DEF Publish, bookVars, readerVars
<1>9. CASE FlushBuffer
  BY <1>9 DEF FlushBuffer, bookVars, writerVars, readerVars
<1>10. CASE CountUpdate
  BY <1>10 DEF CountUpdate, bookVars, readerVars
<1>11. ASSUME NEW r \in Readers, GetSnapshot(r) \/ ReaderStep(r) PROVE TypeOK'
  <2>1. CASE GetSnapshot(r) \/ LoadCurrent(r) \/ Check(r)
    BY <2>1 DEF GetSnapshot, LoadCurrent, Check, bookVars, writerVars
  <2>2. CASE Pin(r)
    <3>1. ref' \in [Nodes -> Int]
      BY <2>2 DEF Pin
    <3>2. rpc' \in [Readers -> {"idle", "load", "pin", "check", "undo", "reading"}]
      BY <2>2 DEF Pin
    <3>3. UNCHANGED <<bookVars, current, wbuf, node, writerVars, rnode>>
      BY <2>2 DEF Pin
    <3> QED BY <3>1, <3>2, <3>3 DEF bookVars, writerVars
  <2>3. CASE Undo(r)
    <3>1. ref' \in [Nodes -> Int]
      BY <2>3 DEF Undo
    <3>2. rpc' \in [Readers -> {"idle", "load", "pin", "check", "undo", "reading"}]
      BY <2>3 DEF Undo
    <3>3. UNCHANGED <<bookVars, current, wbuf, node, writerVars, rnode>>
      BY <2>3 DEF Undo
    <3> QED BY <3>1, <3>2, <3>3 DEF bookVars, writerVars
  <2>4. CASE Release(r)
    <3>1. ref' \in [Nodes -> Int]
      BY <2>4 DEF Release
    <3>2. rpc' \in [Readers -> {"idle", "load", "pin", "check", "undo", "reading"}]
      BY <2>4 DEF Release
    <3>3. UNCHANGED <<bookVars, current, wbuf, node, writerVars, rnode>>
      BY <2>4 DEF Release
    <3> QED BY <3>1, <3>2, <3>3 DEF bookVars, writerVars
  <2> QED BY <1>11, <2>1, <2>2, <2>3, <2>4 DEF ReaderStep
<1>12. CASE UNCHANGED vars
  BY <1>12 DEF vars, bookVars, writerVars, readerVars
<1> QED
  BY <1>1, <1>2, <1>3, <1>4, <1>5, <1>6, <1>7, <1>8, <1>9, <1>10, <1>11, <1>12
  DEF Next, WriterStep

(* Pins is a set of readers, so its cardinality is a number.               *)
LEMMA PinsFinite == \A n : IsFiniteSet(Pins(n)) /\ Cardinality(Pins(n)) \in Nat
BY ReadersAssumption, FS_Subset, FS_CardinalityType DEF Pins

(* A step of a reader changes the count of a node by one exactly when the  *)
(* reader joins or leaves the pins of the node.                            *)
LEMMA RefCountStep == TypeOK /\ RefCountsExact /\ [Next]_vars => RefCountsExact'
<1> SUFFICES ASSUME TypeOK, RefCountsExact, [Next]_vars, NEW n \in Nodes
             PROVE  ref'[n] = Cardinality(Pins(n)')
  BY DEF RefCountsExact
<1>a. /\ ref[n] = Cardinality(Pins(n)) /\ IsFiniteSet(Pins(n))
      /\ Cardinality(Pins(n)) \in Nat
  BY PinsFinite DEF RefCountsExact
<1>1. ASSUME UNCHANGED <<ref, readerVars>> PROVE ref'[n] = Cardinality(Pins(n)')
  BY <1>1, <1>a DEF Pins, readerVars
<1>2. ASSUME NEW r \in Readers, GetSnapshot(r) \/ LoadCurrent(r) \/ Check(r)
      PROVE  ref'[n] = Cardinality(Pins(n)')
  <2>1. Pins(n)' = Pins(n)
    BY <1>2 DEF GetSnapshot, LoadCurrent, Check, Pins, TypeOK
  <2>2. UNCHANGED ref
    BY <1>2 DEF GetSnapshot, LoadCurrent, Check
  <2> QED BY <1>a, <2>1, <2>2
<1>3. ASSUME NEW r \in Readers, Pin(r) PROVE ref'[n] = Cardinality(Pins(n)')
  <2>1. CASE rnode[r] = n
    <3>1. Pins(n)' = Pins(n) \cup {r} /\ r \notin Pins(n)
      BY <1>3, <2>1 DEF Pin, Pins, TypeOK
    <3>2. Cardinality(Pins(n) \cup {r}) = Cardinality(Pins(n)) + 1
      BY <1>a, <3>1, FS_AddElement
    <3>3. ref'[n] = ref[n] + 1
      BY <1>3, <2>1 DEF Pin, TypeOK
    <3> QED BY <1>a, <3>1, <3>2, <3>3
  <2>2. CASE rnode[r] # n
    <3>1. Pins(n)' = Pins(n)
      BY <1>3, <2>2 DEF Pin, Pins, TypeOK
    <3>2. ref'[n] = ref[n]
      BY <1>3, <2>2 DEF Pin, TypeOK
    <3> QED BY <1>a, <3>1, <3>2
  <2> QED BY <2>1, <2>2
<1>4. ASSUME NEW r \in Readers, Undo(r) \/ Release(r) PROVE ref'[n] = Cardinality(Pins(n)')
  <2>1. CASE rnode[r] = n
    <3>1. Pins(n)' = Pins(n) \ {r} /\ r \in Pins(n)
      BY <1>4, <2>1 DEF Undo, Release, Pins, TypeOK
    <3>2. Cardinality(Pins(n) \ {r}) = Cardinality(Pins(n)) - 1
      BY <1>a, <3>1, FS_RemoveElement
    <3>3. ref'[n] = ref[n] - 1
      BY <1>4, <2>1 DEF Undo, Release, TypeOK
    <3> QED BY <1>a, <3>1, <3>2, <3>3
  <2>2. CASE rnode[r] # n
    <3>1. Pins(n)' = Pins(n)
      BY <1>4, <2>2 DEF Undo, Release, Pins, TypeOK
    <3>2. ref'[n] = ref[n]
      BY <1>4, <2>2 DEF Undo, Release, TypeOK
    <3> QED BY <1>a, <3>1, <3>2
  <2> QED BY <2>1, <2>2
<1>5. CASE ChangeBook \/ BumpSequence \/ WriterStep \/ FlushBuffer \/ UNCHANGED vars
  <2>1. UNCHANGED <<ref, readerVars>>
    BY <1>5 DEF ChangeBook, BumpSequence, WriterStep, FlushBuffer, UpdateBegin, ScanNode,
                SkipUpdate, CaptureSequence, CaptureData, Publish, CountUpdate, vars
  <2> QED BY <1>1, <2>1
<1> QED
  BY <1>2, <1>3, <1>4, <1>5 DEF Next, ReaderStep

-----------------------------------------------------------------------------
(* A node whose count is zero is held by nobody.                           *)
LEMMA FreeIsUnheld ==
    ASSUME RefCountsExact, NEW n \in Nodes, ref[n] = 0
    PROVE  \A r \in Readers : rpc[r] = "reading" => rnode[r] # n
<1>1. Cardinality(Pins(n)) = 0 /\ IsFiniteSet(Pins(n))
  BY PinsFinite DEF RefCountsExact
<1>2. Pins(n) = {}
  BY <1>1, FS_EmptySet
<1> QED BY <1>2 DEF Pins

(* The writer's view of m_current stays exact.                             *)
LEMMA WriterViewStep == IInv /\ [Next]_vars => WriterViewExact'
<1> SUFFICES ASSUME IInv, [Next]_vars PROVE WriterViewExact'
  OBVIOUS
<1> USE DEF IInv, TypeOK, WriterViewExact, Filling
<1>1. CASE ChangeBook \/ BumpSequence
  BY <1>1 DEF ChangeBook, BumpSequence, writerVars
<1>2. CASE UpdateBegin \/ SkipUpdate
  BY <1>2 DEF UpdateBegin, SkipUpdate
<1>3. CASE ScanNode
  BY <1>3 DEF ScanNode
<1>4. CASE CaptureSequence \/ CaptureData \/ Publish
  BY <1>4 DEF CaptureSequence, CaptureData, Publish
<1>5. CASE FlushBuffer
  BY <1>5 DEF FlushBuffer, writerVars
<1>6. CASE CountUpdate
  BY <1>6 DEF CountUpdate
<1>7. ASSUME NEW r \in Readers, GetSnapshot(r) \/ ReaderStep(r) PROVE WriterViewExact'
  BY <1>7 DEF GetSnapshot, ReaderStep, LoadCurrent, Pin, Check, Undo, Release, writerVars
<1>8. CASE UNCHANGED vars
  BY <1>8 DEF vars, writerVars
<1> QED
  BY <1>1, <1>2, <1>3, <1>4, <1>5, <1>6, <1>7, <1>8 DEF Next, WriterStep

(* No reader gets to hold the node that is being written.                  *)
LEMMA TargetStep == IInv /\ [Next]_vars => TargetUnheld'
<1> SUFFICES ASSUME IInv, [Next]_vars PROVE TargetUnheld'
  OBVIOUS
<1> USE DEF IInv, TypeOK, WriterViewExact, TargetUnheld, Filling
<1>1. CASE ChangeBook \/ BumpSequence
  BY <1>1 DEF ChangeBook, BumpSequence, writerVars, readerVars
<1>2. CASE UpdateBegin \/ SkipUpdate
  BY <1>2 DEF UpdateBegin, SkipUpdate
<1>3. CASE ScanNode
  <2>1. CASE ~Free(scan)
    BY <1>3, <2>1 DEF ScanNode
  <2>2. CASE Free(scan)
    <3>1. /\ target' = scan /\ scan # current /\ UNCHANGED <<current, readerVars>>
          /\ scan \in Nodes
      BY <1>3, <2>2, NodesAssumption DEF ScanNode, Free, Nodes
    <3>2. \A r \in Readers : rpc[r] = "reading" => rnode[r] # scan
      BY <2>2, <3>1, FreeIsUnheld DEF Free
    <3> QED BY <3>1, <3>2 DEF readerVars
  <2> QED BY <2>1, <2>2
<1>4. CASE CaptureSequence \/ CaptureData \/ Publish
  BY <1>4 DEF CaptureSequence, CaptureData, Publish, readerVars
<1>5. CASE FlushBuffer
  BY <1>5 DEF FlushBuffer, writerVars
<1>6. CASE CountUpdate
  BY <1>6 DEF CountUpdate
<1>7. ASSUME NEW r \in Readers, GetSnapshot(r) \/ ReaderStep(r) PROVE TargetUnheld'
  <2>1. UNCHANGED <<current, wpc, target>>
    BY <1>7 DEF GetSnapshot, ReaderStep, LoadCurrent, Pin, Check, Undo, Release, writerVars
  <2>2. \A q \in Readers : rpc'[q] = "reading" =>
          \/ rpc[q] = "reading" /\ rnode'[q] = rnode[q]
          \/ rnode'[q] = current
    BY <1>7 DEF GetSnapshot, ReaderStep, LoadCurrent, Pin, Check, Undo, Release
  <2> QED BY <2>1, <2>2
<1>8. CASE UNCHANGED vars
  BY <1>8 DEF vars, writerVars, readerVars
<1> QED
  BY <1>1, <1>2, <1>3, <1>4, <1>5, <1>6, <1>7, <1>8 DEF Next, WriterStep

(* Snapshots stay ordered as they are captured and published.              *)
LEMMA ContentsStep == IInv /\ [Next]_vars => ContentsOrdered'
<1> SUFFICES ASSUME IInv, [Next]_vars PROVE ContentsOrdered'
  OBVIOUS
<1> USE DEF IInv, TypeOK, Snapshot, ContentsOrdered
<1>1. CASE ChangeBook
  BY <1>1 DEF ChangeBook, writerVars
<1>2. CASE BumpSequence
  BY <1>2 DEF BumpSequence, writerVars
<1>3. CASE UpdateBegin \/ ScanNode \/ SkipUpdate \/ Publish \/ CountUpdate
  BY <1>3 DEF UpdateBegin, ScanNode, SkipUpdate, Publish, CountUpdate, bookVars
<1>4. CASE CaptureSequence
  BY <1>4 DEF CaptureSequence, bookVars
<1>5. CASE CaptureData
  BY <1>5 DEF CaptureData, bookVars
<1>6. CASE FlushBuffer
  BY <1>6 DEF FlushBuffer, bookVars, writerVars
<1>7. ASSUME NEW r \in Readers, GetSnapshot(r) \/ ReaderStep(r) PROVE ContentsOrdered'
  <2>1. UNCHANGED <<bookVars, node, writerVars>>
    BY <1>7 DEF GetSnapshot, ReaderStep, LoadCurrent, Pin, Check, Undo, Release
  <2> QED BY <2>1 DEF bookVars, writerVars
<1>8. CASE UNCHANGED vars
  BY <1>8 DEF vars, bookVars, writerVars
<1> QED
  BY <1>1, <1>2, <1>3, <1>4, <1>5, <1>6, <1>7, <1>8 DEF Next, WriterStep

(* The invariant holds in a new manager.                                   *)
LEMMA InitInv == Init => IInv
<1> SUFFICES ASSUME Init PROVE IInv
  OBVIOUS
<1> USE NodesAssumption DEF Init
<1>1. TypeOK
  BY DEF TypeOK, Nodes, Snapshot
<1>2. RefCountsExact
  <2>1. \A n \in Nodes : Pins(n) = {}
    BY DEF Pins
  <2> QED BY <2>1, FS_EmptySet DEF RefCountsExact
<1>3. WriterViewExact /\ TargetUnheld /\ ContentsOrdered
  BY DEF WriterViewExact, TargetUnheld, ContentsOrdered, Filling
<1> QED BY <1>1, <1>2, <1>3 DEF IInv

(* The inductive invariant.                                                *)
THEOREM Invariance == Spec => []IInv
<1>1. IInv /\ [Next]_vars => IInv'
  BY TypeStep, RefCountStep, WriterViewStep, TargetStep, ContentsStep DEF IInv
<1> QED BY InitInv, <1>1, PTL DEF Spec

-----------------------------------------------------------------------------
(* A node changes only by capture_snapshot, and then it is the target.     *)
LEMMA OnlyTargetWritten ==
    ASSUME IInv, [Next]_vars
    PROVE  \/ UNCHANGED node
           \/ Filling /\ \A n \in Nodes : n # target => node'[n] = node[n]
BY DEF IInv, TypeOK, Next, WriterStep, ReaderStep, Filling, ChangeBook, BumpSequence,
       UpdateBegin, ScanNode, SkipUpdate, CaptureSequence, CaptureData, Publish, FlushBuffer,
       CountUpdate, GetSnapshot, LoadCurrent, Pin, Check, Undo, Release, vars

(* No snapshot changes while a reader holds it: the pin-and-recheck of     *)
(* get_snapshot keeps capture_snapshot out of the reader's node, for any   *)
(* number of readers and nodes.                                            *)
THEOREM HeldSnapshotsStable == Spec => SnapshotStable
<1>1. ASSUME IInv, [Next]_vars
      PROVE  \A r \in Readers :
                (rpc[r] = "reading" /\ rpc'[r] = "reading") => node'[rnode[r]] = node[rnode[r]]
  <2> SUFFICES ASSUME NEW r \in Readers, rpc[r] = "reading"
               PROVE  node'[rnode[r]] = node[rnode[r]]
    OBVIOUS
  <2> QED BY <1>1, OnlyTargetWritten DEF IInv, TypeOK, TargetUnheld
<1> QED BY <1>1, Invariance, PTL DEF Spec, SnapshotStable

(* The reference counts always equal the number of outstanding pins.       *)
THEOREM RefCountsCorrect == Spec => []RefCountsExact
<1>1. IInv => RefCountsExact
  BY DEF IInv
<1> QED BY <1>1, Invariance, PTL

(* Type correctness.                                                       *)
THEOREM TypeCorrect == Spec => []TypeOK
<1>1. IInv => TypeOK
  BY DEF IInv
<1> QED BY <1>1, Invariance, PTL

(* A node that is published or held was filled to the end, from a book at  *)
(* least as late as its sequence number.                                   *)
THEOREM HeldSnapshotsFresh == Spec => []HeldNotOlderThanSequence
<1>1. IInv => HeldNotOlderThanSequence
  BY DEF IInv, TypeOK, Snapshot, TargetUnheld, ContentsOrdered, Filling, HeldNotOlderThanSequence
<1> QED BY <1>1, Invariance, PTL

-----------------------------------------------------------------------------
(* The contents each reader holds: none, or those of one node.             *)
Held == [r \in Readers |-> IF rpc[r] = "reading" THEN {node[rnode[r]]} ELSE {}]

(* A step that is not a reader's changes nothing that a reader holds.      *)
LEMMA HeldUnchanged ==
    ASSUME IInv, [Next]_vars, UNCHANGED readerVars
    PROVE  UNCHANGED Held
<1>1. \A r \in Readers : rpc[r] = "reading" => node'[rnode[r]] = node[rnode[r]]
  BY OnlyTargetWritten DEF IInv, TypeOK, TargetUnheld
<1> QED BY <1>1 DEF Held, readerVars

(* The published snapshot changes only when m_current does, and then to    *)
(* one that is not older.                                                  *)
LEMMA ValueStep ==
    ASSUME IInv, [Next]_vars
    PROVE  Reg!NotOlder(node'[current'], node[current])
<1> USE DEF IInv, TypeOK, Snapshot, Reg!NotOlder
<1>1. CASE current' = current
  BY <1>1, OnlyTargetWritten DEF TargetUnheld
<1>2. CASE current' # current
  <2>1. (FlushBuffer \/ CountUpdate) /\ current' \in wbuf
    BY <1>2 DEF Next, WriterStep, ReaderStep, ChangeBook, BumpSequence, UpdateBegin, ScanNode,
                SkipUpdate, CaptureSequence, CaptureData, Publish, FlushBuffer, CountUpdate,
                GetSnapshot, LoadCurrent, Pin, Check, Undo, Release, vars
  <2>2. wpc = "count" /\ current' = target /\ node' = node
    BY <2>1 DEF FlushBuffer, CountUpdate, WriterViewExact
  <2> QED BY <2>2 DEF ContentsOrdered
<1> QED BY <1>1, <1>2

(* The manager is an atomic register: Check is the instant of a read, the  *)
(* store of m_current becoming visible that of a publication.              *)
THEOREM RegisterImplemented == Spec => ImplementsRegister
<1>1. Init => Reg!Init
  BY NodesAssumption DEF Init, Reg!Init, Nodes
<1>2. ASSUME IInv, [Next]_vars PROVE [Reg!Next]_(Reg!registerVars)
  <2>1. CASE UNCHANGED readerVars
    <3>1. Reg!Publish
      BY <1>2, <2>1, HeldUnchanged, ValueStep DEF Reg!Publish, Held
    <3> QED BY <3>1 DEF Reg!Next
  <2>2. ASSUME NEW r \in Readers, GetSnapshot(r) \/ LoadCurrent(r) \/ Pin(r) \/ Undo(r)
        PROVE  UNCHANGED Reg!registerVars
    BY <1>2, <2>2 DEF GetSnapshot, LoadCurrent, Pin, Undo, IInv, TypeOK, Reg!registerVars
  <2>3. ASSUME NEW r \in Readers, Check(r) PROVE [Reg!Next]_(Reg!registerVars)
    <3>1. CASE rnode[r] = current
      <4>1. Reg!Take(r)
        BY <1>2, <2>3, <3>1 DEF Check, IInv, TypeOK, Reg!Take
      <4> QED BY <4>1 DEF Reg!Next
    <3>2. CASE rnode[r] # current
      BY <1>2, <2>3, <3>2 DEF Check, IInv, TypeOK, Reg!registerVars
    <3> QED BY <3>1, <3>2
  <2>4. ASSUME NEW r \in Readers, Release(r) PROVE Reg!GiveBack(r)
    BY <1>2, <2>4 DEF Release, IInv, TypeOK, Reg!GiveBack
  <2>5. CASE ChangeBook \/ BumpSequence \/ WriterStep \/ FlushBuffer \/ UNCHANGED vars
    <3>1. UNCHANGED readerVars
      BY <2>5 DEF ChangeBook, BumpSequence, WriterStep, FlushBuffer, UpdateBegin, ScanNode,
                  SkipUpdate, CaptureSequence, CaptureData, Publish, CountUpdate, vars
    <3> QED BY <2>1, <3>1
  <2> QED
    BY <1>2, <2>2, <2>3, <2>4, <2>5 DEF Next, ReaderStep, Reg!Next
<1> QED BY <1>1, <1>2, Invariance, PTL DEF Spec, ImplementsRegister, Reg!Spec

-----------------------------------------------------------------------------
(* Why two spare nodes are enough.  While find_free_node scans, m_current  *)
(* does not change, and a reader that loads it again can only come to the  *)
(* published node.  So each reader makes the scan pass at most one node:   *)
(* the nodes passed so far and the readers that still stand on a node      *)
(* ahead of the scan are together no more than the readers.                *)
Passed == {n \in Nodes : n < scan /\ n # current}

Ahead == {r \in Readers : /\ rpc[r] \in {"pin", "check", "undo", "reading"}
                          /\ rnode[r] # current /\ rnode[r] >= scan}

ScanInv == wpc = "scan" => Cardinality(Passed) + Cardinality(Ahead) <= Cardinality(Readers)

(* The sets that are counted are finite.                                   *)
LEMMA ScanSetsFinite ==
    /\ IsFiniteSet(Nodes) /\ IsFiniteSet(Passed) /\ IsFiniteSet(Ahead)
    /\ Cardinality(Nodes) = NUM_NODES
    /\ Cardinality(Passed) \in Nat /\ Cardinality(Ahead) \in Nat /\ Cardinality(Readers) \in Nat
<1>1. IsFiniteSet(Nodes) /\ Cardinality(Nodes) = NUM_NODES
  BY NodesAssumption, FS_Interval DEF Nodes
<1>2. IsFiniteSet(Passed) /\ IsFiniteSet(Ahead)
  BY <1>1, ReadersAssumption, FS_Subset DEF Passed, Ahead
<1> QED BY <1>1, <1>2, ReadersAssumption, FS_CardinalityType

(* The scan passes a node only for the published one or for a pin.         *)
LEMMA ScanStep == IInv /\ ScanInv /\ [Next]_vars => ScanInv'
<1> SUFFICES ASSUME IInv, ScanInv, [Next]_vars, wpc' = "scan"
             PROVE  Cardinality(Passed') + Cardinality(Ahead') <= Cardinality(Readers)
  BY DEF ScanInv
<1>a. /\ IsFiniteSet(Passed) /\ Cardinality(Passed) \in Nat
      /\ IsFiniteSet(Ahead) /\ Cardinality(Ahead) \in Nat /\ Cardinality(Readers) \in Nat
      /\ IsFiniteSet(Nodes)
  BY ScanSetsFinite
<1>1. CASE UpdateBegin
  <2>1. Passed' = {}
    BY <1>1, NodesAssumption DEF UpdateBegin, Passed, Nodes
  <2>2. Ahead' \subseteq Readers
    BY DEF Ahead
  <2>3. Cardinality(Passed') = 0 /\ Cardinality(Ahead') <= Cardinality(Readers)
    BY <2>1, <2>2, FS_EmptySet, FS_Subset, ReadersAssumption
  <2>4. Cardinality(Ahead') \in Nat
    BY <2>2, FS_Subset, FS_CardinalityType, ReadersAssumption
  <2> QED BY <1>a, <2>3, <2>4
<1>2. CASE wpc = "scan" /\ Passed' = Passed /\ Ahead' \subseteq Ahead
  <2>1. Cardinality(Ahead') <= Cardinality(Ahead) /\ Cardinality(Ahead') \in Nat
    BY <1>a, <1>2, FS_Subset, FS_CardinalityType
  <2> QED BY <1>a, <1>2, <2>1 DEF ScanInv
<1>3. CASE ScanNode
  <2>1. /\ wpc = "scan" /\ scan \in Nodes /\ scan' = scan + 1 /\ ~Free(scan)
        /\ wview = current /\ UNCHANGED <<current, ref, readerVars>>
    BY <1>3, NodesAssumption DEF ScanNode, IInv, TypeOK, Nodes, WriterViewExact
  <2>2. CASE scan = current
    <3>1. Passed' = Passed /\ Ahead' \subseteq Ahead
      BY <2>1, <2>2, NodesAssumption DEF Passed, Ahead, Nodes, readerVars, IInv, TypeOK
    <3> QED BY <1>2, <2>1, <3>1
  <2>3. CASE scan # current
    <3>1. Pins(scan) # {}
      BY <2>1, <2>3, FS_EmptySet DEF Free, IInv, RefCountsExact
    <3>2. PICK r \in Readers : r \in Pins(scan)
      BY <3>1 DEF Pins
    <3>3. r \in Ahead /\ Ahead' \subseteq Ahead \ {r}
      BY <2>1, <2>3, <3>2, NodesAssumption DEF Pins, Ahead, readerVars, IInv, TypeOK, Nodes
    <3>4. Passed' = Passed \cup {scan} /\ scan \notin Passed
      BY <2>1, <2>3, NodesAssumption DEF Passed, Nodes
    <3>5. Cardinality(Passed') = Cardinality(Passed) + 1
      BY <1>a, <3>4, FS_AddElement
    <3>6. IsFiniteSet(Ahead \ {r}) /\ Cardinality(Ahead \ {r}) = Cardinality(Ahead) - 1
      BY <1>a, <3>3, FS_RemoveElement
    <3>7. Cardinality(Ahead') <= Cardinality(Ahead) - 1 /\ Cardinality(Ahead') \in Nat
      BY <3>3, <3>6, FS_Subset, FS_CardinalityType
    <3> QED BY <1>a, <2>1, <3>5, <3>7 DEF ScanInv
  <2> QED BY <2>2, <2>3
<1>4. ASSUME NEW r \in Readers, GetSnapshot(r) \/ ReaderStep(r)
      PROVE  wpc = "scan" /\ Passed' = Passed /\ Ahead' \subseteq Ahead
  <2>1. wpc = "scan" /\ UNCHANGED <<current, scan>>
    BY <1>4 DEF GetSnapshot, ReaderStep, LoadCurrent, Pin, Check, Undo, Release, writerVars
  <2>2. Ahead' \subseteq Ahead
    BY <1>4, <2>1 DEF GetSnapshot, ReaderStep, LoadCurrent, Pin, Check, Undo, Release, Ahead,
                      IInv, TypeOK
  <2> QED BY <2>1, <2>2 DEF Passed
<1>5. CASE ChangeBook \/ BumpSequence \/ UNCHANGED vars
  BY <1>2, <1>5 DEF ChangeBook, BumpSequence, vars, writerVars, readerVars, Passed, Ahead
<1>6. CASE SkipUpdate \/ CaptureSequence \/ CaptureData \/ Publish \/ CountUpdate
  BY <1>6 DEF SkipUpdate, CaptureSequence, CaptureData, Publish, CountUpdate
<1>7. CASE FlushBuffer
  BY <1>7 DEF FlushBuffer, writerVars, IInv, WriterViewExact
<1> QED
  BY <1>1, <1>2, <1>3, <1>4, <1>5, <1>6, <1>7 DEF Next, WriterStep

(* With two nodes more than readers no update is ever skipped: the three   *)
(* nodes of the code serve one reader without loss.                        *)
THEOREM SpareNodesSuffice == Spec => []NoUpdateSkipped
<1>1. Init => ScanInv
  BY DEF Init, ScanInv
<1>2. IInv /\ ScanInv => NoUpdateSkipped
  <2> SUFFICES ASSUME IInv, ScanInv, wpc = "scan", scan = NUM_NODES,
                      Cardinality(Readers) + 2 <= NUM_NODES
               PROVE  FALSE
    BY NodesAssumption DEF NoUpdateSkipped, IInv, TypeOK
  <2>1. Passed = Nodes \ {current} /\ current \in Nodes
    BY NodesAssumption DEF Passed, Nodes, IInv, TypeOK
  <2>2. Cardinality(Passed) = NUM_NODES - 1
    BY <2>1, ScanSetsFinite, FS_RemoveElement
  <2> QED BY <2>2, ScanSetsFinite, NodesAssumption DEF ScanInv
<1> QED BY <1>1, <1>2, ScanStep, Invariance, PTL DEF Spec
=============================================================================
