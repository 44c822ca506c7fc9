------------------------------ MODULE MCRamfs ------------------------------
(* /tmp and a home directory, /home for short; root has removed the rest   *)
(* of the skeleton, its own home included.                                 *)
EXTENDS Ramfs
MCHome == [root |-> <<"root">>, ada |-> <<"home">>]
MCSkeleton == <<<<"tmp">>, <<"home">>>>
=============================================================================
