------------------------------- MODULE MCHeap -------------------------------
(* A heap of a few blocks: requests that divide it exactly, that leave too *)
(* little for a header, and that do not fit.                               *)
EXTENDS Heap

Sizes == {1, 4, 9}
=============================================================================
