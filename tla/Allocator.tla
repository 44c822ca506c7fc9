------------------------------ MODULE Allocator ------------------------------
(***************************************************************************)
(* What kmalloc and kfree promise their callers: a block is a stretch of   *)
(* the heap that is as long as was asked for and that nobody else has      *)
(* until it is given back.                                                 *)
(***************************************************************************)
EXTENDS Integers

CONSTANTS HeapSize, Requests

VARIABLE live   \* the blocks handed out: [at, size, asked]

Disjoint(x, y) == x.at + x.size <= y.at \/ y.at + y.size <= x.at

Init == live = {}

\* A block of n bytes is handed out.
Alloc(n) ==
    \E x \in live' :
        /\ live' = live \union {x}
        /\ x.asked = n
        /\ x.size >= n
        /\ x.at >= 0 /\ x.at + x.size <= HeapSize
        /\ \A y \in live : Disjoint(x, y)

Free(x) == live' = live \ {x}

Next == (\E n \in Requests : Alloc(n)) \/ (\E x \in live : Free(x))

Spec == Init /\ [][Next]_live
=============================================================================
