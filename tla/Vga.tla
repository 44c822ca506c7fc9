-------------------------------- MODULE Vga --------------------------------
(***************************************************************************)
(* The text console of drivers/vga.c: the shadow screen, the scrollback    *)
(* ring, the view into both, and the video memory that shows the view.     *)
(*                                                                         *)
(* vga_putc runs with interrupts masked and is one step.  vga_clear and    *)
(* the scrolling functions are called by the session with interrupts on:   *)
(* they change the state in one step and then repaint line by line, and    *)
(* the mouse's handler may scroll the view between two lines.  Nothing but *)
(* the session writes.  Colours are left out, and \r and \t, which the     *)
(* callers modelled here do not write.                                     *)
(***************************************************************************)
EXTENDS Integers, Sequences, SequencesExt, FiniteSetsExt

CONSTANTS
    VGA_WIDTH,
    VGA_HEIGHT,
    SCROLLBACK_LINES,
    Glyphs,           \* characters that take a cell
    NULL

ASSUME VgaAssumption ==
    /\ VGA_WIDTH \in Nat \ {0}
    /\ VGA_HEIGHT \in Nat \ {0, 1}
    /\ SCROLLBACK_LINES \in Nat \ {0}
    /\ Glyphs \intersect {" ", "newline", "backspace"} = {}

\* NULL is no repaint under way and no place for the cursor.
ASSUME VgaNullAssumption ==
    NULL \notin [row : Nat, offset : Nat] /\ NULL \notin Nat \X Nat

Rows == 0 .. VGA_HEIGHT - 1
Cols == 0 .. VGA_WIDTH - 1
Line == [Cols -> Glyphs \union {" "}]
BlankLine == [c \in Cols |-> " "]

VARIABLES
    screen,
    back,         \* scrollback with its head and count
    view_offset,
    cursor,       \* <<cursor_row, cursor_col>>
    vram,
    crtc,         \* the hardware cursor, NULL when it is off screen
    paint,        \* the session's repaint: the next line, and view_offset as
                  \* it was when it began
    torn          \* history: the view was moved under the last repaint

vga == <<screen, back, view_offset, cursor, vram, crtc, paint, torn>>
-----------------------------------------------------------------------------
(* The scrollback.                                                         *)

\* The slots keep being used in order when the ring is full, but the head
\* stays (LinesKept).
push_scrollback_Sticks(b, line) ==
    [line |-> [b.line EXCEPT ![b.head] = line],
     head |-> Min({b.head + 1, SCROLLBACK_LINES - 1}),
     count |-> Min({b.count + 1, SCROLLBACK_LINES})]

push_scrollback(b, line) ==
    [line |-> [b.line EXCEPT ![b.head] = line],
     head |-> (b.head + 1) % SCROLLBACK_LINES,
     count |-> Min({b.count + 1, SCROLLBACK_LINES})]

\* Line `index`, 0 being the oldest.
scrollback_line(b, index) ==
    b.line[(b.head - b.count + index + SCROLLBACK_LINES) % SCROLLBACK_LINES]

\* The screen's lines up to the last that is not blank.
Written(s) == LET last == Max({-1} \union {r \in Rows : s[r] # BlankLine})
              IN  [i \in 1 .. last + 1 |-> s[i - 1]]

archive_screen(b, s) == FoldLeft(push_scrollback, b, Written(s))
-----------------------------------------------------------------------------
(* The view.                                                               *)

\* What repaint puts into a line of video memory.
Source(row, offset) ==
    LET index == back.count - offset + row
    IN  IF index < back.count THEN scrollback_line(back, index)
                              ELSE screen[index - back.count]

View == [row \in Rows |-> Source(row, view_offset)]

move_hardware_cursor(offset) == IF offset > 0 THEN NULL ELSE cursor

\* repaint with interrupts masked.
Repaint ==
    /\ vram' = View'
    /\ crtc' = move_hardware_cursor(view_offset)'
    /\ torn' = (paint # NULL)

\* repaint as the session runs it, line by line; -O2 (build.py:57) loads
\* view_offset once, before the loop.
RepaintBegin ==
    /\ paint' = [row |-> 0, offset |-> view_offset']
    /\ torn' = FALSE

PaintLine ==
    /\ paint # NULL
    /\ paint.row < VGA_HEIGHT
    /\ vram' = [vram EXCEPT ![paint.row] = Source(paint.row, paint.offset)]
    /\ paint' = [paint EXCEPT !.row = @ + 1]
    /\ UNCHANGED <<screen, back, view_offset, cursor, crtc, torn>>

PaintCursor ==
    /\ paint # NULL
    /\ paint.row = VGA_HEIGHT
    /\ crtc' = move_hardware_cursor(paint.offset)
    /\ paint' = NULL
    /\ UNCHANGED <<screen, back, view_offset, cursor, vram, torn>>

Target(lines) == Max({0, Min({view_offset + lines, back.count})})

\* vga_scroll_view in the mouse's handler.
ScrollInHandler(lines) ==
    /\ view_offset' = Target(lines)
    /\ UNCHANGED <<screen, back, cursor, paint>>
    /\ IF Target(lines) = view_offset THEN UNCHANGED <<vram, crtc, torn>> ELSE Repaint

\* vga_scroll_view and vga_scroll_to_bottom in the session.  A notch of the
\* wheel between the read and the write of view_offset is overwritten, as if
\* it had not been turned.
ScrollInSession(target) ==
    /\ view_offset' = target
    /\ UNCHANGED <<screen, back, cursor, vram, crtc>>
    /\ IF target = view_offset THEN UNCHANGED <<paint, torn>> ELSE RepaintBegin
-----------------------------------------------------------------------------
(* Output.                                                                 *)

vga_clear ==
    /\ back' = archive_screen(back, screen)
    /\ screen' = [row \in Rows |-> BlankLine]
    /\ cursor' = <<0, 0>>
    /\ view_offset' = 0
    /\ RepaintBegin
    /\ UNCHANGED <<vram, crtc>>

\* Where c takes the cursor; one row below the last means that the screen
\* moves up.
Moved(c) ==
    LET row == cursor[1]
        col == cursor[2]
    IN  CASE c = "newline" -> <<row + 1, 0>>
          [] c = "backspace" /\ col > 0 -> <<row, col - 1>>
          [] c = "backspace" /\ col = 0 -> IF row > 0 THEN <<row - 1, VGA_WIDTH - 1>> ELSE cursor
          [] OTHER -> IF col + 1 = VGA_WIDTH THEN <<row + 1, 0>> ELSE <<row, col + 1>>

\* s with what c writes into it.
Marked(s, c) ==
    CASE c = "newline" -> s
      [] c = "backspace" -> [s EXCEPT ![Moved(c)[1]][Moved(c)[2]] = " "]
      [] OTHER -> [s EXCEPT ![cursor[1]][cursor[2]] = c]

\* New output leaves the reader where he was (Mirrors).
vga_putc_NoSnap(c) ==
    /\ IF Moved(c)[1] < VGA_HEIGHT
       THEN /\ screen' = Marked(screen, c)
            /\ cursor' = Moved(c)
            /\ vram' = Marked(vram, c)
            /\ UNCHANGED <<back, torn>>
       ELSE /\ back' = push_scrollback(back, Marked(screen, c)[0])
            /\ screen' = [row \in Rows |-> IF row = VGA_HEIGHT - 1 THEN BlankLine
                                           ELSE Marked(screen, c)[row + 1]]
            /\ cursor' = <<VGA_HEIGHT - 1, Moved(c)[2]>>
            /\ vram' = screen'
            /\ torn' = FALSE
    /\ crtc' = cursor'
    /\ UNCHANGED <<paint, view_offset>>

vga_putc(c) ==
    /\ view_offset' = 0
    /\ IF Moved(c)[1] < VGA_HEIGHT
       THEN /\ screen' = Marked(screen, c)
            /\ cursor' = Moved(c)
            /\ vram' = Marked(IF view_offset = 0 THEN vram ELSE screen, c)
            /\ torn' = (torn /\ view_offset = 0)
            /\ UNCHANGED back
       ELSE /\ back' = push_scrollback(back, Marked(screen, c)[0])
            /\ screen' = [row \in Rows |-> IF row = VGA_HEIGHT - 1 THEN BlankLine
                                           ELSE Marked(screen, c)[row + 1]]
            /\ cursor' = <<VGA_HEIGHT - 1, Moved(c)[2]>>
            /\ vram' = screen'
            /\ torn' = FALSE
    /\ crtc' = cursor'
    /\ UNCHANGED paint

\* vga_init.
VgaInit ==
    /\ screen = [row \in Rows |-> BlankLine]
    /\ back = [line |-> [i \in 0 .. SCROLLBACK_LINES - 1 |-> BlankLine],
               head |-> 0, count |-> 0]
    /\ view_offset = 0
    /\ cursor = <<0, 0>>
    /\ vram = screen
    /\ crtc = cursor
    /\ paint = NULL
    /\ torn = FALSE
-----------------------------------------------------------------------------
(* Properties.                                                             *)

VgaTypeOK ==
    /\ screen \in [Rows -> Line] /\ vram \in [Rows -> Line]
    /\ back \in [line : [0 .. SCROLLBACK_LINES - 1 -> Line],
                 head : 0 .. SCROLLBACK_LINES - 1, count : 0 .. SCROLLBACK_LINES]
    /\ view_offset \in 0 .. back.count
    /\ cursor \in Rows \X Cols
    /\ crtc \in (Rows \X Cols) \union {NULL}
    /\ paint \in {NULL} \union [row : 0 .. VGA_HEIGHT, offset : 0 .. back.count]
    /\ torn \in BOOLEAN

\* Video memory and the hardware cursor show the view: what is mirrored
\* character by character and what is repainted never part, "scrolling back
\* can repaint the display ... without destroying the live contents"
\* (vga.c:13-15).  The one exception is the wheel turned during a repaint of
\* the session, until the next whole repaint: there the two mix.
Mirrors == paint = NULL /\ ~torn => vram = View /\ crtc = move_hardware_cursor(view_offset)

Kept == [i \in 1 .. back.count |-> scrollback_line(back, i - 1)]

\* The lines scrolled back to are the last ones that left the screen, in
\* order, the oldest dropped: the screen's first line when it moves up, all
\* that is written when it is cleared (README.md:232-233).
LinesKept ==
    [][LET left == IF cursor' = <<0, 0>> THEN Written(screen) ELSE <<screen[0]>>
           all == Kept \o left
       IN  Kept' = SubSeq(all, Max({1, Len(all) - SCROLLBACK_LINES + 1}), Len(all))]_back
=============================================================================
