--------------------------- MODULE SnapshotThread ---------------------------
(***************************************************************************)
(* The snapshot part of the loop that main.cpp runs in one thread per      *)
(* symbol: update the manager from the book, get the snapshot, hand it to  *)
(* the bots if it is valid, release it.  The thread is the only user of    *)
(* its manager, so each call is one step; what happens between calls is    *)
(* that the simulator changes the book.  A snapshot is the sequence number *)
(* of the book it was taken from; the nodes other than m_current hold      *)
(* snapshots that nobody reads again (BookSnapshot shows it).              *)
(*                                                                         *)
(* Nobody else touches the reference counts, so a node's count is zero     *)
(* between turns unless a turn of this loop kept its pin: `kept' is the    *)
(* set of nodes with a count above zero.                                   *)
(***************************************************************************)
EXTENDS Integers, FiniteSetsExt

CONSTANT NUM_NODES   \* nodes of the manager

Nodes == 0 .. NUM_NODES - 1

VARIABLES
    sequence,    \* m_sequence of the symbol's book
    g_running,   \* main's flag
    tpc,         \* the thread's next call
    current,     \* m_current
    latest,      \* sequence number of the snapshot in m_current
    kept,        \* nodes whose ref_count stays above zero
    snap,        \* the snapshot got in this turn
    seen         \* sequence number of the last snapshot given to the bots

threadVars == <<tpc, current, latest, kept, snap, seen>>

Init ==
    /\ tpc = "update"
    /\ current = 0
    /\ latest = 0
    /\ kept = {}
    /\ snap = 0
    /\ seen = 0

(* A mutant of FreeNodes: the scan does not wrap around.                   *)
FreeBehindCurrent == {n \in Nodes \ kept : n > current}

(* find_free_node's candidates.                                            *)
FreeNodes == Nodes \ (kept \cup {current})

(* capture_snapshot's `snap.sequence'.                                     *)
Captured == sequence

(* sm.update(book): skipped when all nodes are in use.                     *)
Update ==
    /\ tpc = "update"
    /\ g_running
    /\ IF FreeNodes = {}
       THEN UNCHANGED <<current, latest>>
       ELSE /\ current' = Min(FreeNodes)
            /\ latest' = Captured
    /\ tpc' = "get"
    /\ UNCHANGED <<kept, snap, seen>>

(* sm.get_snapshot(): without another writer the first attempt succeeds.   *)
Get ==
    /\ tpc = "get"
    /\ snap' = current
    /\ tpc' = "use"
    /\ UNCHANGED <<current, latest, kept, seen>>

(* BookSnapshot::valid *)
Valid == latest > 0

(* on_snapshot and release_snapshot, both only for a valid snapshot.       *)
Use ==
    /\ tpc = "use"
    /\ IF Valid
       THEN seen' = latest /\ UNCHANGED kept
       ELSE kept' = kept \cup {snap} /\ UNCHANGED seen
    /\ tpc' = "update"
    /\ UNCHANGED <<current, latest, snap>>

(* The loop ends between turns.                                            *)
Exit ==
    /\ tpc = "update"
    /\ ~g_running
    /\ tpc' = "exit"
    /\ UNCHANGED <<current, latest, kept, snap, seen>>

ThreadStep == Update \/ Get \/ Use \/ Exit
=============================================================================
