------------------------------ MODULE Terminal ------------------------------
(***************************************************************************)
(* What the user sees: the session's line editor and the mouse's interrupt *)
(* handler on the one text console.  The handler runs between any two      *)
(* steps of the session; vga_putc, which masks interrupts, is one step.    *)
(***************************************************************************)
EXTENDS Console, Mouse

vars == <<vga, console, mouse>>

Init == VgaInit /\ ConsoleInit /\ MouseInit

Session == (Key \/ Write \/ Paint) /\ UNCHANGED mouse

Next ==
    \/ Session
    \/ MouseByte /\ UNCHANGED console
    \/ LoseByte /\ UNCHANGED console

Spec == Init /\ [][Next]_vars

TypeOK == VgaTypeOK /\ ConsoleTypeOK /\ MouseTypeOK
=============================================================================
