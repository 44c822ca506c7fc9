----------------------------- MODULE MCKeyboard -----------------------------
(* A ring that two keys fill; the right ctrl key shares ctrl's second byte. *)
EXTENDS Keyboard
=============================================================================
