------------------------------- MODULE MCTask -------------------------------
(* Idle, the session and two workers at a time, in slots and stack blocks  *)
(* that are used again.  The heap takes the first block that is free       *)
(* (kmalloc), which spares TLC the states that differ only in which block  *)
(* is whose.                                                               *)
EXTENDS Task

FirstFit == \A block \in used' \ used : block = Min(Stacks \ used)
=============================================================================
