------------------------------ MODULE MCInstall ------------------------------
(* A disk of a few sectors: boot sector 0, kernel 1-2, data area from 3.   *)
EXTENDS Install

CONSTANTS a, b

BlocksValue == {a, b}
ContentsValue == {<<a>>, <<b, b>>}

Layout(m, s) == [d \in Drives |-> IF d = "slave" THEN s ELSE m]
MasterOnly == Layout(6, 0)
SlaveOnly == Layout(0, 6)
=============================================================================
