------------------------------ MODULE MCPersist ------------------------------
(* Two snapshots of different lengths that have no sector in common, one   *)
(* or two drives that have room for either, and a tree too large to save.  *)
EXTENDS Persist

CONSTANTS a, b

BlocksValue == {a, b}
TwoSnapshots == {<<a>>, <<b, b>>}
AndTooLarge == TwoSnapshots \union {<<a, b, a>>}

SlaveOnly == [d \in Drives |-> IF d = "slave" THEN 4 ELSE 0]
BothDrives == [d \in Drives |-> IF d = "slave" THEN 4 ELSE 6]
=============================================================================
