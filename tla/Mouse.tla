------------------------------- MODULE Mouse -------------------------------
(***************************************************************************)
(* The wheel mouse of drivers/mouse.c: the device with its wheel enabled,  *)
(* the interrupt handler, and the line that may lose a byte between them.  *)
(* Of a byte only the low four bits matter to the driver: bit 3, which the *)
(* header of a report always has, and the wheel's four-bit field.          *)
(***************************************************************************)
EXTENDS Vga

CONSTANTS
    packet_size,      \* bytes of a report
    LINES_PER_NOTCH,
    Headers,          \* low four bits of what the device sends: the header,
    Moves,            \* the deltas of the pointer,
    Wheels,           \* and the wheel
    MaxLost           \* bound: bytes lost

ASSUME MouseAssumption ==
    /\ packet_size \in Nat \ {0, 1}
    /\ LINES_PER_NOTCH \in Nat \ {0}
    /\ Headers \subseteq 8 .. 15
    /\ Moves \subseteq 0 .. 15 /\ Wheels \subseteq 0 .. 15
    /\ MaxLost \in Nat

VARIABLES
    packet_index,   \* where the driver is in a packet
    sent,           \* where the device is in a report
    step,           \* history: "in" step with the device as far as the bytes
                    \* tell, "out" of it, or in a "quiet" report: heard from
                    \* its header on, and no byte behind that had bit 3
    lost            \* bytes lost

mouse == <<packet_index, sent, step, lost>>

\* What the device may send next.
Report == [i \in 1 .. packet_size |->
    IF i = 1 THEN Headers ELSE IF i = packet_size THEN Wheels ELSE Moves]

\* The sign extension of the wheel's field.
Notches(byte) == IF byte >= 8 THEN byte - 16 ELSE byte

\* Takes any byte for a header (Resynchronises).
mouse_callback_AnyHeader(byte) ==
    /\ packet_index' = (packet_index + 1) % packet_size
    /\ IF packet_index = packet_size - 1 /\ Notches(byte) # 0
       THEN ScrollInHandler(-Notches(byte) * LINES_PER_NOTCH)
       ELSE UNCHANGED vga

\* Away from the user the wheel counts down, and older lines come into view.
mouse_callback(byte) ==
    IF packet_index = 0 /\ byte < 8
    THEN UNCHANGED <<packet_index, vga>>
    ELSE /\ packet_index' = (packet_index + 1) % packet_size
         /\ IF packet_index = packet_size - 1 /\ Notches(byte) # 0
            THEN ScrollInHandler(-Notches(byte) * LINES_PER_NOTCH)
            ELSE UNCHANGED vga

Sent(byte) ==
    /\ byte \in Report[sent + 1]
    /\ sent' = (sent + 1) % packet_size

Heard(byte) ==
    CASE step = "in" -> "in"
      [] step # "in" /\ sent = 0 -> "quiet"
      [] step = "quiet" /\ sent > 0 /\ byte < 8 ->
            IF sent = packet_size - 1 THEN "in" ELSE "quiet"
      [] OTHER -> "out"

\* A byte arrives: IRQ12.
MouseByte ==
    \E byte \in 0 .. 15 :
        /\ Sent(byte)
        /\ step' = Heard(byte)
        /\ mouse_callback(byte)
        /\ UNCHANGED lost

LoseByte ==
    /\ lost < MaxLost
    /\ \E byte \in 0 .. 15 : Sent(byte)
    /\ lost' = lost + 1
    /\ step' = "out"
    /\ UNCHANGED <<packet_index, vga>>

MouseInit == packet_index = 0 /\ sent = 0 /\ step = "in" /\ lost = 0
-----------------------------------------------------------------------------
(* Properties.                                                             *)

MouseTypeOK ==
    /\ packet_index \in 0 .. packet_size - 1
    /\ sent \in 0 .. packet_size - 1
    /\ step \in {"in", "quiet", "out"}
    /\ lost \in 0 .. MaxLost

\* However many bytes were lost, one report without bit 3 behind its header
\* is enough to bring the driver back into step, and nothing but another
\* lost byte brings it out again: "use it to resynchronise after a dropped
\* byte" (mouse.c:96-97).
Resynchronises == step = "in" => packet_index = sent
=============================================================================
