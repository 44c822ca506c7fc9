----------------------------- MODULE MCTerminal -----------------------------
(* A screen of two rows of two, two lines of scrollback, lines of up to two *)
(* characters behind a prompt of one.  All characters look the same: rows  *)
(* and lines differ in their length.                                       *)
EXTENDS Terminal

const_Prompt == <<"x">>
const_Cancel == <<"x">>
const_Outputs == {<<>>, <<"clear">>}

\* Bounds: the wheel is turned only before the first line is in the history,
\* and a byte is lost only while the session waits for a key, which then
\* does not come.
Bounds ==
    /\ history_total > 0 => sent = 0 /\ packet_index = 0
    /\ lost > 0 => AtRest /\ history_total = 0
=============================================================================
