------------------------------ MODULE KeyQueue ------------------------------
(***************************************************************************)
(* What the keyboard promises whoever reads it: the keys come in the order *)
(* they were struck, each once; when too many wait, the new one is lost    *)
(* and never one of those that wait.                                       *)
(***************************************************************************)
EXTENDS Naturals, Sequences

CONSTANTS Keys, Capacity

VARIABLE waiting

Init == waiting = <<>>

Strike(key) == Len(waiting) < Capacity /\ waiting' = Append(waiting, key)

Take == waiting # <<>> /\ waiting' = Tail(waiting)

Next == Take \/ \E key \in Keys : Strike(key)

Spec == Init /\ [][Next]_waiting
=============================================================================
