-------------------------- MODULE SnapshotRegister --------------------------
(***************************************************************************)
(* What the snapshot manager promises its readers: a register that holds   *)
(* the latest published snapshot.  A publication replaces its value at one *)
(* instant, by a snapshot that is not older; a reader takes the value of   *)
(* one instant, whole, and keeps it unchanged until it gives it back.      *)
(***************************************************************************)
EXTENDS Naturals

CONSTANT Readers

VARIABLES
    value,   \* the published snapshot
    held     \* what each reader holds: {} or one snapshot

registerVars == <<value, held>>

NotOlder(a, b) == a.seq >= b.seq /\ a.data >= b.data

Init ==
    /\ value = [seq |-> 0, data |-> 0]
    /\ held = [r \in Readers |-> {}]

Publish ==
    /\ NotOlder(value', value)
    /\ UNCHANGED held

Take(r) ==
    /\ held[r] = {}
    /\ held' = [held EXCEPT ![r] = {value}]
    /\ UNCHANGED value

GiveBack(r) ==
    /\ held' = [held EXCEPT ![r] = {}]
    /\ UNCHANGED value

Next == Publish \/ \E r \in Readers : Take(r) \/ GiveBack(r)

Spec == Init /\ [][Next]_registerVars
=============================================================================
