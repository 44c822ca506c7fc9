------------------------------ MODULE Keyboard ------------------------------
(***************************************************************************)
(* The keyboard driver (drivers/keyboard.c): the interrupt handler decodes *)
(* scancodes and pushes keys into a ring, keyboard_poll takes them out in  *)
(* the session's task with interrupts on, so that the handler runs between *)
(* any two of its steps.                                                   *)
(*                                                                         *)
(* The keyboard itself is external: it sends one byte after the other, a   *)
(* prefix byte before those of the extended keys, and repeats a key that   *)
(* is held.  A scancode is <<"make" or "break", key>>.                     *)
(***************************************************************************)
EXTENDS Integers, Sequences, FiniteSets, SequencesExt

CONSTANTS
    BUFFER_LEN,
    Letters,     \* keys with an upper and a lower case
    Arrows,      \* extended keys that are pushed
    Struck,      \* the keys of the keyboard that are used at all
    MaxWire,     \* bound: bytes on their way
    NULL

ASSUME KeyboardAssumption == BUFFER_LEN \in Nat /\ BUFFER_LEN >= 2 /\ MaxWire \in Nat

Shifts == {"left shift", "right shift"}
\* Keys whose bytes follow the prefix 0xE0; their second byte may be one of
\* another key, right ctrl's is that of ctrl.
Extended == Arrows \union {"right ctrl"}
Physical == Letters \union Extended \union Shifts \union {"ctrl", "caps lock"}

ASSUME StruckAssumption == Struck \subseteq Physical

Prefix == <<"prefix", "">>
Make(k) == <<"make", IF k = "right ctrl" THEN "ctrl" ELSE k>>
Break(k) == <<"break", IF k = "right ctrl" THEN "ctrl" ELSE k>>

Keys == (Letters \X {"lower", "upper", "control"}) \union (Arrows \X {"extended"})

\* The keyboard has one key for each of these, and none that is no key.
ASSUME KeysAssumption ==
    /\ Arrows \intersect (Shifts \union {"ctrl"}) = {}
    /\ NULL \notin Keys

Places == 0 .. BUFFER_LEN - 1

VARIABLES
    held,        \* external: keys that are down
    wire,        \* external: bytes not read by the handler yet
    buffer, head, tail,
    shift_down, caps_lock, ctrl_down, extended,
    key          \* keyboard_poll: what it read, before it moved tail

driver == <<buffer, head, tail, shift_down, caps_lock, ctrl_down, extended>>
vars == <<held, wire, driver, key>>
-----------------------------------------------------------------------------
(* The keyboard (external).                                                *)

Send(k, byte) ==
    /\ wire' = wire \o (IF k \in Extended THEN <<Prefix, byte>> ELSE <<byte>>)
    /\ Len(wire') <= MaxWire

Press(k) ==
    /\ Send(k, Make(k))
    /\ held' = held \union {k}
    /\ UNCHANGED <<driver, key>>

Release(k) ==
    /\ k \in held
    /\ Send(k, Break(k))
    /\ held' = held \ {k}
    /\ UNCHANGED <<driver, key>>
-----------------------------------------------------------------------------
(* keyboard_callback.                                                      *)

\* head runs past the end (TypeOK).
push_NoWrap(k) ==
    IF head + 1 = tail
    THEN UNCHANGED <<buffer, head>>
    ELSE buffer' = [buffer EXCEPT ![head] = k] /\ head' = head + 1

\* One place stays free; a key that finds only that one is dropped.
push(k) ==
    LET next == (head + 1) % BUFFER_LEN
    IN  IF next = tail
        THEN UNCHANGED <<buffer, head>>
        ELSE buffer' = [buffer EXCEPT ![head] = k] /\ head' = next

\* Letter case is shift or caps lock but not both; ctrl takes either case.
Char(letter) ==
    <<letter, IF ctrl_down THEN "control" ELSE IF shift_down # caps_lock THEN "upper" ELSE "lower">>

PrefixByte ==
    /\ Head(wire) = Prefix
    /\ extended' = TRUE
    /\ UNCHANGED <<buffer, head, shift_down, caps_lock, ctrl_down>>

\* The second byte forgets to end the extended state (ModifiersFollow).
ExtendedByte_Stays ==
    /\ Head(wire) # Prefix /\ extended
    /\ extended' = TRUE
    /\ UNCHANGED <<buffer, head, shift_down, caps_lock, ctrl_down>>

\* Of the second bytes only the making of an arrow or the like counts.
ExtendedByte ==
    /\ Head(wire) # Prefix /\ extended
    /\ extended' = FALSE
    /\ IF Head(wire)[1] = "make" /\ Head(wire)[2] \in Arrows
       THEN push(<<Head(wire)[2], "extended">>)
       ELSE UNCHANGED <<buffer, head>>
    /\ UNCHANGED <<shift_down, caps_lock, ctrl_down>>

BreakByte ==
    /\ Head(wire)[1] = "break" /\ ~extended
    /\ LET k == Head(wire)[2]
       IN  /\ shift_down' = (shift_down /\ k \notin Shifts)
           /\ ctrl_down' = (ctrl_down /\ k # "ctrl")
    /\ UNCHANGED <<buffer, head, caps_lock, extended>>

MakeByte ==
    /\ Head(wire)[1] = "make" /\ ~extended
    /\ LET k == Head(wire)[2]
       IN  /\ shift_down' = (shift_down \/ k \in Shifts)
           /\ ctrl_down' = (ctrl_down \/ k = "ctrl")
           /\ caps_lock' = (caps_lock # (k = "caps lock"))
           /\ IF k \in Letters THEN push(Char(k)) ELSE UNCHANGED <<buffer, head>>
    /\ UNCHANGED extended

keyboard_callback ==
    /\ wire # <<>>
    /\ wire' = Tail(wire)
    /\ PrefixByte \/ ExtendedByte \/ BreakByte \/ MakeByte
    /\ UNCHANGED <<held, tail, key>>
-----------------------------------------------------------------------------
(* keyboard_poll, in two steps: the test and the read, then tail moves and *)
(* the key is returned.                                                    *)

PollRead ==
    /\ key = NULL
    /\ head # tail
    /\ key' = buffer[tail]
    /\ UNCHANGED <<held, wire, driver>>

\* Skips a key that waits behind the one returned (Implements).
PollReturn_Double ==
    /\ key # NULL
    /\ tail' = IF (tail + 1) % BUFFER_LEN = head THEN head ELSE (tail + 2) % BUFFER_LEN
    /\ key' = NULL
    /\ UNCHANGED <<held, wire, buffer, head, shift_down, caps_lock, ctrl_down, extended>>

PollReturn ==
    /\ key # NULL
    /\ tail' = (tail + 1) % BUFFER_LEN
    /\ key' = NULL
    /\ UNCHANGED <<held, wire, buffer, head, shift_down, caps_lock, ctrl_down, extended>>

\* keyboard_init; caps lock and the others are static, so off.
Init ==
    /\ held = {} /\ wire = <<>>
    /\ buffer = [i \in Places |-> NULL]
    /\ head = 0 /\ tail = 0
    /\ shift_down = FALSE /\ caps_lock = FALSE /\ ctrl_down = FALSE /\ extended = FALSE
    /\ key = NULL

Next ==
    \/ \E k \in Struck : Press(k) \/ Release(k)
    \/ keyboard_callback
    \/ PollRead \/ PollReturn

Spec == Init /\ [][Next]_vars
-----------------------------------------------------------------------------
(* Properties.                                                             *)

TypeOK ==
    /\ held \subseteq Struck
    /\ Len(wire) <= MaxWire
    /\ buffer \in [Places -> Keys \union {NULL}]
    /\ head \in Places /\ tail \in Places
    /\ {shift_down, caps_lock, ctrl_down, extended} \subseteq BOOLEAN
    /\ key \in Keys \union {NULL}

Waiting == [i \in 1 .. (head - tail + BUFFER_LEN) % BUFFER_LEN |->
              buffer[(tail + i - 1) % BUFFER_LEN]]

\* Shift or ctrl never stick: once all bytes are read shift_down and
\* ctrl_down say no more than what is held, also when extended keys, whose
\* second byte can be that of a modifier, came in between.
ModifiersFollow ==
    wire = <<>> =>
        /\ shift_down => held \intersect Shifts # {}
        /\ ctrl_down <=> "ctrl" \in held
        /\ ~extended

\* The keys not handed over yet, the one keyboard_poll has read included.
Pending == IF key = NULL THEN Waiting ELSE <<key>> \o SubSeq(Waiting, 2, Len(Waiting))

\* The ring and the two steps are a queue: order kept, no key lost but a new
\* one that finds it full, and the key in keyboard_poll's hand still the first
\* however many are struck before it is returned (keyboard.c:35-43, 128-137).
Queue == INSTANCE KeyQueue WITH waiting <- Pending, Capacity <- BUFFER_LEN - 1
Implements == Queue!Spec
=============================================================================
