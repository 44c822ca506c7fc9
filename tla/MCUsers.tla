------------------------------- MODULE MCUsers -------------------------------
(* Three names for a table of three, so that it fills up, gets gaps and is *)
(* filled again.                                                           *)
EXTENDS Users
=============================================================================
