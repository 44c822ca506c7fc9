------------------------------ MODULE Console ------------------------------
(***************************************************************************)
(* The line editor and the command history of kernel/console.c, with the   *)
(* part of shell_run that feeds the history, writing through Vga.          *)
(*                                                                         *)
(* Keys come one at a time from keyboard_getchar (see Keyboard).  What the *)
(* editor keeps to itself changes with the key, at once; what it has to    *)
(* write becomes the agenda, which the session works off one call of vga.c *)
(* after the other before it takes the next key.  length is Len(out).      *)
(***************************************************************************)
EXTENDS Vga

CONSTANTS
    Chars,        \* printable characters
    Star,         \* what a password shows
    LINE_MAX,
    Echoes,       \* the kinds of echo asked for outside the shell
    SMALL,        \* size of the buffer for a name, an answer or a password
    HISTORY_MAX,
    Prompt,       \* what the shell or the question writes before it reads
    Cancel,       \* ^C
    Outputs,      \* what a command, or whoever asked, does to the screen
    PAGE_STEP, SCROLL_STEP,
    MaxLines      \* bound: lines ever put in the history

Shell == [echo |-> "plain", use_history |-> TRUE, size |-> LINE_MAX]

\* The calls of console_read_line.
Calls == {Shell} \union
         [echo : Echoes, use_history : {FALSE}, size : {SMALL}]

CmdLine == SeqOf(Chars, LINE_MAX - 1)

ASSUME ConsoleAssumption ==
    /\ Chars \subseteq Glyphs /\ Star \in Glyphs
    /\ Echoes \subseteq {"plain", "hidden", "stars"} /\ Echoes # {}
    /\ LINE_MAX \in Nat /\ SMALL \in 2 .. LINE_MAX
    /\ HISTORY_MAX \in Nat \ {0}
    /\ PAGE_STEP \in Nat /\ SCROLL_STEP \in Nat
    /\ MaxLines \in Nat
    \* A line and its prompt never fill the screen.
    /\ Len(Prompt) + LINE_MAX <= VGA_WIDTH * VGA_HEIGHT

\* What is written is made of calls of vga.c, and a prompt begins at the left
\* edge, unless a line and its prompt leave a row of the screen over (as they
\* do on 80 by 25 cells: LINE_MAX and FS_PATH_MAX are 256).
ASSUME OutputsAssumption ==
    /\ Glyphs \intersect {"clear", "bottom", "pageup", "pagedown", "up", "down"} = {}
    /\ Prompt \in Seq(Glyphs) /\ Cancel \in Seq(Glyphs)
    /\ Outputs \subseteq Seq(Glyphs \union {"newline", "backspace", "clear"})
    /\ \/ Len(Prompt) + LINE_MAX <= VGA_WIDTH * (VGA_HEIGHT - 1)
       \/ \A output \in Outputs :
            output = <<>> \/ output[Len(output)] \in {"newline", "clear"}

VARIABLES
    call,           \* the arguments of the call under way
    out, drawn, browse,
    history, history_total,
    agenda,         \* calls of vga.c still to make
    lead,           \* history: what the call's line stands behind
    log             \* history: every line ever pushed

past == <<history, history_total, log>>
editor == <<call, out, drawn, browse, past, lead>>
console == <<editor, agenda>>

limit == call.size - 1

\* The session waits in keyboard_getchar.
AtRest == agenda = <<>> /\ paint = NULL
-----------------------------------------------------------------------------
(* The screen.                                                             *)

Echoed(line) ==
    CASE call.echo = "plain" -> line
      [] call.echo = "hidden" -> <<>>
      [] call.echo = "stars" -> [i \in DOMAIN line |-> Star]

\* n backspaces, then the line anew.
redraw(n, line) ==
    /\ drawn' = IF call.echo = "hidden" THEN 0 ELSE Len(line)
    /\ agenda' = [i \in 1 .. n |-> "backspace"] \o Echoed(line)

\* The next call on the agenda.
Write ==
    /\ paint = NULL
    /\ agenda # <<>>
    /\ agenda' = Tail(agenda)
    /\ LET it == Head(agenda)
       IN  \/ it \in Glyphs \union {"newline", "backspace"} /\ vga_putc(it)
           \/ it = "clear" /\ vga_clear
           \/ it = "bottom" /\ ScrollInSession(0)
           \/ it = "pageup" /\ ScrollInSession(Target(PAGE_STEP))
           \/ it = "pagedown" /\ ScrollInSession(Target(-PAGE_STEP))
           \/ it = "up" /\ ScrollInSession(Target(SCROLL_STEP))
           \/ it = "down" /\ ScrollInSession(Target(-SCROLL_STEP))
    /\ UNCHANGED editor

Paint == (PaintLine \/ PaintCursor) /\ UNCHANGED console
-----------------------------------------------------------------------------
(* The history.                                                            *)

\* An empty line and one like the last are not kept.
console_history_push(line) ==
    IF line = <<>> \/ (history_total > 0 /\ history[(history_total - 1) % HISTORY_MAX] = line)
    THEN UNCHANGED past
    ELSE /\ history' = [history EXCEPT ![history_total % HISTORY_MAX] = line]
         /\ history_total' = history_total + 1
         /\ log' = Append(log, line)

\* Takes the oldest line that is kept for overwritten (HistoryIsLog).
console_history_at_Short(index) ==
    IF index < 0 \/ index >= history_total \/ index <= history_total - HISTORY_MAX
    THEN <<>>
    ELSE history[index % HISTORY_MAX]

\* The empty line stands for NULL: no line in the history is empty.
console_history_at(index) ==
    IF index < 0 \/ index >= history_total \/ index < history_total - HISTORY_MAX
    THEN <<>>
    ELSE history[index % HISTORY_MAX]
-----------------------------------------------------------------------------
(* Keys.                                                                   *)

\* The caller does what it does with the answer, goes on to its next call and
\* writes the prompt for it.
NextCall(ending, outputs) ==
    /\ call' \in Calls
    /\ out' = <<>> /\ drawn' = 0
    /\ browse' = history_total'
    /\ \E output \in outputs : agenda' = <<"bottom">> \o ending \o output \o Prompt
    /\ lead' = Prompt

\* Enter.  In the shell the line is put in the history and executed, unless
\* it is empty.
Enter ==
    \/ /\ call = Shell /\ out # <<>>
       /\ history_total < MaxLines
       /\ console_history_push(out)
       /\ NextCall(<<"newline">>, Outputs)
    \/ /\ call # Shell \/ out = <<>>
       /\ UNCHANGED past
       /\ NextCall(<<"newline">>, IF call = Shell THEN {<<>>} ELSE Outputs)

CtrlC ==
    /\ UNCHANGED past
    /\ NextCall(Cancel \o <<"newline">>, IF call = Shell THEN {<<>>} ELSE Outputs)

\* Leaves drawn as it was, for the next redraw to go too far back
\* (ScreenIsLine).
Backspace_Undrawn ==
    /\ out # <<>>
    /\ out' = Front(out)
    /\ agenda' = IF call.echo = "hidden" THEN <<>> ELSE <<"backspace">>
    /\ UNCHANGED <<call, drawn, browse, past, lead>>

Backspace ==
    /\ out # <<>>
    /\ out' = Front(out)
    /\ IF call.echo = "hidden"
       THEN UNCHANGED <<drawn, agenda>>
       ELSE drawn' = drawn - 1 /\ agenda' = <<"backspace">>
    /\ UNCHANGED <<call, browse, past, lead>>

\* The screen is cleared and the line drawn again, behind the prompt if the
\* caller is the shell, which says how to write it.
CtrlL ==
    /\ lead' = IF call = Shell THEN Prompt ELSE <<>>
    /\ drawn' = Len(Echoed(out))
    /\ agenda' = <<"clear">> \o lead' \o Echoed(out)
    /\ UNCHANGED <<call, out, browse, past>>

\* The line is discarded.
CtrlU ==
    /\ redraw(drawn, <<>>)
    /\ out' = <<>>
    /\ UNCHANGED <<call, browse, past, lead>>

\* Page Up and Page Down, and the arrows where there is no history.
Scroll ==
    /\ \/ agenda' \in {<<"pageup">>, <<"pagedown">>}
       \/ ~call.use_history /\ agenda' \in {<<"up">>, <<"down">>}
    /\ UNCHANGED editor

\* The arrows in the shell: to a line of the history that is still kept, or
\* past the last one to an empty line.
Browse(target) ==
    /\ call.use_history
    /\ target >= 0
    /\ \/ /\ target >= history_total
          /\ browse' = history_total
          /\ out' = <<>>
       \/ /\ console_history_at(target) # <<>>
          /\ browse' = target
          /\ LET entry == console_history_at(target)
             IN  out' = SubSeq(entry, 1, Min({limit, Len(entry)}))
    /\ redraw(drawn, out')
    /\ UNCHANGED <<call, past, lead>>

\* A key that does not fit may still go in (TypeOK).
Type_Full(c) ==
    /\ Len(out) <= limit
    /\ out' = Append(out, c)
    /\ drawn' = Len(Echoed(out'))
    /\ agenda' = <<"bottom">> \o Echoed(<<c>>)
    /\ UNCHANGED <<call, browse, past, lead>>

Type(c) ==
    /\ Len(out) < limit
    /\ out' = Append(out, c)
    /\ drawn' = IF call.echo = "hidden" THEN drawn ELSE drawn + 1
    /\ agenda' = <<"bottom">> \o Echoed(<<c>>)
    /\ UNCHANGED <<call, browse, past, lead>>

Key ==
    /\ AtRest
    /\ \/ Enter \/ CtrlC \/ Backspace \/ CtrlL \/ CtrlU \/ Scroll
       \/ Browse(browse - 1) \/ Browse(browse + 1)
       \/ \E c \in Chars : Type(c)
    /\ UNCHANGED vga

\* The first call is not the shell's.
ConsoleInit ==
    /\ call \in Calls \ {Shell}
    /\ out = <<>> /\ drawn = 0
    /\ history = [i \in 0 .. HISTORY_MAX - 1 |-> <<>>]
    /\ history_total = 0 /\ browse = 0
    /\ agenda = Prompt /\ lead = Prompt
    /\ log = <<>>
-----------------------------------------------------------------------------
(* Properties.                                                             *)

ConsoleTypeOK ==
    /\ call \in Calls
    /\ out \in CmdLine /\ Len(out) <= limit
    /\ drawn \in 0 .. LINE_MAX - 1
    /\ browse \in 0 .. history_total
    /\ history \in [0 .. HISTORY_MAX - 1 -> CmdLine]
    /\ history_total \in 0 .. MaxLines
    /\ lead \in {Prompt, <<>>}

Cell(place) == screen[place \div VGA_WIDTH][place % VGA_WIDTH]

\* When the session waits for a key, what stands before the cursor is the
\* prompt and the line that Enter will hand over, in the form the call asked
\* for, and nothing stands behind it: through any mix of editing, browsing,
\* discarding and clearing, over the edge of a row and while the screen moves
\* up, no redraw eats into the prompt or leaves a piece of the old line
\* (console.c:55-62, vga.c:176-196).
ScreenIsLine ==
    AtRest =>
    LET shown == lead \o Echoed(out)
        here == cursor[1] * VGA_WIDTH + cursor[2]
    IN  /\ drawn = Len(Echoed(out))
        /\ here >= Len(shown)
        /\ \A i \in DOMAIN shown : Cell(here - Len(shown) + i - 1) = shown[i]
        /\ \A place \in here .. VGA_WIDTH * VGA_HEIGHT - 1 : Cell(place) = " "

\* The history answers for an index with the line entered there, for exactly
\* the last HISTORY_MAX of them, also after the ring has wrapped.
HistoryIsLog ==
    /\ history_total = Len(log)
    /\ \A i \in 0 .. history_total - 1 :
        console_history_at(i) =
            IF i >= history_total - HISTORY_MAX THEN log[i + 1] ELSE <<>>
=============================================================================
