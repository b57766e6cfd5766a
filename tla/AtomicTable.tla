---------------------------- MODULE AtomicTable ----------------------------
(***************************************************************************)
(* What the catalog promises to whoever reads the table: a history of      *)
(* snapshots to which every change is made in one step, on the latest      *)
(* state, with a version that counts the changes.  A change adds a new     *)
(* snapshot, or forgets the oldest ones.                                   *)
(***************************************************************************)
EXTENDS Naturals, Sequences

CONSTANTS Id, Seed

VARIABLES
    history,    \* the snapshots, oldest first
    current,    \* the snapshot readers use
    version     \* number of the table's metadata

vars == <<history, current, version>>

Init == history = <<Seed>> /\ current = Seed /\ version = 1

Add(id) ==
    /\ \A i \in 1..Len(history) : history[i] # id
    /\ history' = Append(history, id)
    /\ current' = id
    /\ version' = version + 1

Forget(k) ==
    /\ history' = SubSeq(history, k + 1, Len(history))
    /\ version' = version + 1
    /\ UNCHANGED current

Next ==
    \/ \E id \in Id : Add(id)
    \/ \E k \in 0..Len(history) : Forget(k)

Spec == Init /\ [][Next]_vars
=============================================================================
