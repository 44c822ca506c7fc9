--------------------------- MODULE TerminalProofs ---------------------------
(***************************************************************************)
(* Proofs about the terminal, for every screen, every history and reports  *)
(* of any length.                                                          *)
(***************************************************************************)
EXTENDS Terminal, WellFoundedInduction, SequenceTheorems, TLAPS

-----------------------------------------------------------------------------
(* The mouse.                                                              *)

\* In a quiet report that is under way the driver is either waiting for a
\* header, with nothing to come that looks like one, or in the middle of a
\* packet that ends before the report does.
MouseInv ==
    /\ packet_index \in 0 .. packet_size - 1
    /\ sent \in 0 .. packet_size - 1
    /\ step = "quiet" => sent # 0 /\ (packet_index = 0 \/ packet_index >= sent)
    /\ Resynchronises

\* One place on in a packet or a report.
LEMMA OneOn ==
    ASSUME NEW i \in 0 .. packet_size - 1
    PROVE  (i + 1) % packet_size = IF i = packet_size - 1 THEN 0 ELSE i + 1
<1>1. packet_size \in Nat /\ packet_size > 1
  BY MouseAssumption
<1>2. CASE i = packet_size - 1
  BY <1>1, <1>2
<1>3. CASE i # packet_size - 1
  <2>1. i + 1 \in 0 .. packet_size - 1
    BY <1>1, <1>3
  <2>. QED
    BY <1>1, <1>3, <2>1
<1>. QED
  BY <1>2, <1>3

\* The handler's part in it.
LEMMA IndexAfterByte ==
    ASSUME NEW byte \in 0 .. 15, packet_index \in 0 .. packet_size - 1,
           mouse_callback(byte)
    PROVE  packet_index' = IF packet_index = 0 /\ byte < 8 THEN 0
                           ELSE IF packet_index = packet_size - 1 THEN 0
                           ELSE packet_index + 1
<1>1. CASE packet_index = 0 /\ byte < 8
  BY <1>1 DEF mouse_callback
<1>2. CASE ~ (packet_index = 0 /\ byte < 8)
  <2>1. packet_index' = (packet_index + 1) % packet_size
    BY <1>2 DEF mouse_callback
  <2>. QED
    BY <1>2, <2>1, OneOn
<1>. QED
  BY <1>1, <1>2

\* What the device sends, and where that leaves it.
LEMMA SentNext ==
    ASSUME NEW byte \in 0 .. 15, sent \in 0 .. packet_size - 1, Sent(byte)
    PROVE  /\ sent' = IF sent = packet_size - 1 THEN 0 ELSE sent + 1
           /\ sent = 0 => byte >= 8
<1>1. sent' = (sent + 1) % packet_size
  BY DEF Sent
<1>2. sent + 1 \in 1 .. packet_size
  BY MouseAssumption
<1>3. ASSUME sent = 0 PROVE byte >= 8
  <2>1. byte \in Headers
    BY <1>2, <1>3 DEF Sent, Report
  <2>. QED
    BY <2>1, MouseAssumption
<1>. QED
  BY <1>1, <1>3, OneOn

\* A byte that arrives, by where the report is and what it holds.
LEMMA ByteKeeps == ASSUME MouseInv, MouseByte PROVE MouseInv'
<1>1. PICK byte \in 0 .. 15 : Sent(byte) /\ step' = Heard(byte) /\ mouse_callback(byte)
  BY DEF MouseByte
<1>2. /\ packet_index \in 0 .. packet_size - 1 /\ sent \in 0 .. packet_size - 1
      /\ packet_size \in Nat /\ packet_size > 1
  BY MouseAssumption DEF MouseInv
<1>3. /\ sent' = IF sent = packet_size - 1 THEN 0 ELSE sent + 1
      /\ sent = 0 => byte >= 8
  BY <1>1, <1>2, SentNext
<1>4. packet_index' = IF packet_index = 0 /\ byte < 8 THEN 0
                      ELSE IF packet_index = packet_size - 1 THEN 0
                      ELSE packet_index + 1
  BY <1>1, <1>2, IndexAfterByte
<1>5. packet_index' \in 0 .. packet_size - 1 /\ sent' \in 0 .. packet_size - 1
  BY <1>2, <1>3, <1>4
<1>6. CASE step = "in"
  <2>1. step' = "in"
    BY <1>1, <1>6 DEF Heard
  <2>2. packet_index = sent
    BY <1>6 DEF MouseInv, Resynchronises
  <2>. QED
    BY <1>2, <1>3, <1>4, <1>5, <2>1, <2>2 DEF MouseInv, Resynchronises
<1>7. CASE step # "in" /\ sent = 0
  <2>1. step' = "quiet"
    BY <1>1, <1>7 DEF Heard
  <2>2. sent' = 1 /\ (packet_index' = 0 \/ packet_index' >= 1)
    BY <1>2, <1>3, <1>5, <1>7
  <2>. QED
    BY <1>5, <2>1, <2>2 DEF MouseInv, Resynchronises
<1>8. CASE step = "quiet" /\ sent # 0 /\ byte < 8
  <2>1. step' = IF sent = packet_size - 1 THEN "in" ELSE "quiet"
    BY <1>1, <1>2, <1>8 DEF Heard
  <2>2. packet_index = 0 \/ packet_index >= sent
    BY <1>8 DEF MouseInv
  <2>3. packet_index' = 0 \/ packet_index' >= sent'
    BY <1>2, <1>3, <1>4, <1>8, <2>2
  <2>4. sent = packet_size - 1 => packet_index' = 0 /\ sent' = 0
    BY <1>2, <1>3, <1>4, <1>8, <2>2
  <2>5. sent # packet_size - 1 => sent' # 0
    BY <1>2, <1>3
  <2>. QED
    BY <1>5, <2>1, <2>3, <2>4, <2>5 DEF MouseInv, Resynchronises
<1>9. CASE step # "in" /\ sent # 0 /\ ~ (step = "quiet" /\ byte < 8)
  <2>1. step' = "out"
    BY <1>1, <1>2, <1>9 DEF Heard
  <2>. QED
    BY <1>5, <2>1 DEF MouseInv, Resynchronises
<1>. QED
  BY <1>6, <1>7, <1>8, <1>9

\* A lost byte puts the driver out of step until the next quiet report.
LEMMA LossKeeps == ASSUME MouseInv, LoseByte PROVE MouseInv'
<1>1. PICK byte \in 0 .. 15 : Sent(byte)
  BY DEF LoseByte
<1>2. step' = "out" /\ packet_index' = packet_index
  BY DEF LoseByte
<1>3. sent' \in 0 .. packet_size - 1
  BY <1>1, SentNext, MouseAssumption DEF MouseInv
<1>. QED
  BY <1>2, <1>3 DEF MouseInv, Resynchronises

\* One report without bit 3 behind its header brings the driver back into
\* step, and it stays there until another byte is lost (mouse.c:96-104).
THEOREM MouseResynchronises == Spec => []Resynchronises
<1>1. Init => MouseInv
  BY MouseAssumption DEF Init, MouseInit, MouseInv, Resynchronises
<1>2. ASSUME MouseInv, [Next]_vars PROVE MouseInv'
  <2>1. CASE MouseByte
    BY <1>2, <2>1, ByteKeeps
  <2>2. CASE LoseByte
    BY <1>2, <2>2, LossKeeps
  <2>3. CASE UNCHANGED mouse
    BY <1>2, <2>3 DEF mouse, MouseInv, Resynchronises
  <2>. QED
    BY <1>2, <2>1, <2>2, <2>3 DEF Next, Session, vars
<1>3. MouseInv => Resynchronises
  BY DEF MouseInv
<1>. QED
  BY <1>1, <1>2, <1>3, PTL DEF Spec
-----------------------------------------------------------------------------
(* The history.                                                            *)

\* Euclidean division.
LEMMA Division ==
    ASSUME NEW n \in Nat \ {0}, NEW t \in Nat
    PROVE  \E q \in Int, r \in 0 .. n - 1 : t = n * q + r /\ r = t % n
OBVIOUS

\* Two numbers less than n apart have different remainders: lines that are
\* kept at the same time are kept in different slots.
LEMMA SlotsApart ==
    ASSUME NEW n \in Nat \ {0}, NEW t \in Nat, NEW i \in Nat, i < t, t - n < i
    PROVE  i % n # t % n
<1>1. PICK p \in Int, r \in 0 .. n - 1 : i = n * p + r /\ r = i % n
  BY Division
<1>2. PICK q \in Int, s \in 0 .. n - 1 : t = n * q + s /\ s = t % n
  BY Division
<1>3. SUFFICES ASSUME i % n = t % n PROVE FALSE
  OBVIOUS
<1>4. t - i = n * q - n * p
  BY <1>1, <1>2, <1>3
<1>5. n * q - n * p = n * (q - p)
  BY <1>1
<1>6. CASE q - p <= 0
  <2>1. n * (q - p) <= 0
    BY <1>1, <1>6
  <2>. QED
    BY <1>1, <1>4, <1>5, <2>1
<1>7. CASE q - p >= 1
  <2>1. n * (q - p) >= n
    BY <1>1, <1>7
  <2>. QED
    BY <1>1, <1>4, <1>5, <2>1
<1>. QED
  BY <1>1, <1>6, <1>7

\* A line number taken modulo the ring is the number of a slot.
LEMMA RingSlot ==
    ASSUME NEW i \in Nat
    PROVE  i % HISTORY_MAX \in 0 .. HISTORY_MAX - 1
BY ConsoleAssumption

LineInv == call \in Calls /\ out \in Seq(Chars) /\ browse \in Int

HistoryInv ==
    /\ history_total \in Nat
    /\ history \in [0 .. HISTORY_MAX - 1 -> Seq(Chars)]
    /\ log \in Seq(Seq(Chars)) /\ Len(log) = history_total
    /\ \A i \in 0 .. history_total - 1 :
        i >= history_total - HISTORY_MAX => history[i % HISTORY_MAX] = log[i + 1]

\* What the history answers follows from what its slots hold.
LEMMA HistoryAnswers == HistoryInv => HistoryIsLog
<1> SUFFICES ASSUME HistoryInv PROVE HistoryIsLog
  OBVIOUS
<1>1. ASSUME NEW i \in 0 .. history_total - 1
      PROVE  console_history_at(i) =
                IF i >= history_total - HISTORY_MAX THEN log[i + 1] ELSE <<>>
  <2>1. HISTORY_MAX \in Nat /\ history_total \in Nat
    BY ConsoleAssumption DEF HistoryInv
  <2>2. CASE i >= history_total - HISTORY_MAX
    <3>1. history[i % HISTORY_MAX] = log[i + 1]
      BY <2>2 DEF HistoryInv
    <3>2. console_history_at(i) = history[i % HISTORY_MAX]
      BY <2>1, <2>2 DEF console_history_at
    <3>. QED
      BY <2>2, <3>1, <3>2
  <2>3. CASE i < history_total - HISTORY_MAX
    BY <2>1, <2>3 DEF console_history_at
  <2>. QED
    BY <2>1, <2>2, <2>3
<1>. QED
  BY <1>1 DEF HistoryIsLog, HistoryInv

\* A push takes the slot of the one line that is kept no longer.
LEMMA PushKeeps ==
    ASSUME HistoryInv, out \in Seq(Chars), console_history_push(out)
    PROVE  HistoryInv'
<1>1. CASE UNCHANGED past
  BY <1>1 DEF past, HistoryInv
<1>2. CASE /\ history' = [history EXCEPT ![history_total % HISTORY_MAX] = out]
           /\ history_total' = history_total + 1
           /\ log' = Append(log, out)
  <2> DEFINE slot == history_total % HISTORY_MAX
  <2>1. /\ HISTORY_MAX \in Nat \ {0} /\ history_total \in Nat
        /\ slot \in 0 .. HISTORY_MAX - 1
    BY ConsoleAssumption, RingSlot DEF HistoryInv
  <2>2. /\ log' \in Seq(Seq(Chars)) /\ Len(log') = history_total'
        /\ log'[history_total + 1] = out
        /\ \A i \in 1 .. history_total : log'[i] = log[i]
    BY <1>2 DEF HistoryInv
  <2>3. history' \in [0 .. HISTORY_MAX - 1 -> Seq(Chars)]
    BY <1>2, <2>1 DEF HistoryInv
  <2>4. ASSUME NEW i \in 0 .. history_total' - 1, i >= history_total' - HISTORY_MAX
        PROVE  history'[i % HISTORY_MAX] = log'[i + 1]
    <3>1. CASE i = history_total
      BY <1>2, <2>1, <2>2, <3>1 DEF HistoryInv
    <3>2. CASE i # history_total
      <4>1. i \in Nat /\ i < history_total /\ history_total - HISTORY_MAX < i
        BY <1>2, <2>1, <2>4, <3>2
      <4>2. i % HISTORY_MAX # slot /\ i % HISTORY_MAX \in 0 .. HISTORY_MAX - 1
        BY <2>1, <4>1, SlotsApart, RingSlot
      <4>3. history'[i % HISTORY_MAX] = history[i % HISTORY_MAX]
        BY <1>2, <4>2 DEF HistoryInv
      <4>4. history[i % HISTORY_MAX] = log[i + 1]
        BY <2>1, <4>1 DEF HistoryInv
      <4>5. i + 1 \in 1 .. history_total
        BY <2>1, <4>1
      <4>6. log'[i + 1] = log[i + 1]
        BY <2>2, <4>5
      <4>. QED
        BY <4>3, <4>4, <4>6
    <3>. QED
      BY <3>1, <3>2
  <2>5. history_total' \in Nat
    BY <1>2, <2>1
  <2> HIDE DEF slot
  <2>. QED
    BY <2>2, <2>3, <2>4, <2>5 DEF HistoryInv
<1>. QED
  BY <1>1, <1>2 DEF console_history_push

\* What leaves the ring and the log alone leaves the history right.
LEMMA PastKeeps == ASSUME HistoryInv, UNCHANGED past PROVE HistoryInv'
BY DEF past, HistoryInv

\* A line is bounded by the buffer of its call.
LEMMA LimitInt == LineInv => limit \in Int
<1>1. LINE_MAX \in Int /\ SMALL \in Int
  BY ConsoleAssumption
<1>2. ASSUME LineInv PROVE call.size \in {LINE_MAX, SMALL}
  <2>1. call \in Calls
    BY <1>2 DEF LineInv
  <2>2. CASE call = Shell
    BY <2>2 DEF Shell
  <2>3. CASE call \in [echo : Echoes, use_history : {FALSE}, size : {SMALL}]
    BY <2>3
  <2>. QED
    BY <2>1, <2>2, <2>3 DEF Calls
<1>. QED
  BY <1>1, <1>2 DEF limit

\* The start of a line of the history is a line.
LEMMA EntryFits ==
    ASSUME HistoryInv, NEW target \in Int, console_history_at(target) # <<>>,
           NEW room \in Int
    PROVE  LET entry == console_history_at(target)
           IN  SubSeq(entry, 1, Min({room, Len(entry)})) \in Seq(Chars)
<1> DEFINE entry == console_history_at(target)
           m == Min({room, Len(entry)})
<1>1. entry \in Seq(Chars)
  <2>1. target \in Nat /\ entry = history[target % HISTORY_MAX]
    BY DEF console_history_at, HistoryInv
  <2>. QED
    BY <2>1, RingSlot DEF HistoryInv
<1> HIDE DEF entry
<1>2. m \in Int /\ m <= Len(entry)
  <2>1. Len(entry) \in Int
    BY <1>1
  <2>2. \E x \in {room, Len(entry)} : \A y \in {room, Len(entry)} : x <= y
    <3>1. CASE room <= Len(entry)
      BY <2>1, <3>1
    <3>2. CASE Len(entry) <= room
      BY <2>1, <3>2
    <3>. QED
      BY <2>1, <3>1, <3>2
  <2>3. m \in {room, Len(entry)} /\ \A y \in {room, Len(entry)} : m <= y
    BY <2>2, Zenon DEF Min
  <2>. QED
    BY <2>1, <2>3
<1> HIDE DEF m
<1>3. SubSeq(entry, 1, m) \in Seq(Chars)
  BY <1>1, <1>2
<1>. QED
  BY <1>3 DEF entry, m

\* A new call begins with an empty line, past the end of the history.
LEMMA NextCallLine ==
    ASSUME NEW ending, NEW outputs, NextCall(ending, outputs), HistoryInv'
    PROVE  LineInv'
BY DEF NextCall, LineInv, HistoryInv

\* The keys, one by one.
LEMMA KeyKeeps ==
    ASSUME LineInv, HistoryInv, Key
    PROVE  LineInv' /\ HistoryInv'
<1>1. CASE Enter
  <2>1. HistoryInv'
    BY <1>1, PushKeeps, PastKeeps DEF Enter, LineInv
  <2>2. PICK ending, outputs : NextCall(ending, outputs)
    BY <1>1 DEF Enter
  <2>. QED
    BY <2>1, <2>2, NextCallLine
<1>2. CASE CtrlC
  <2>1. HistoryInv'
    BY <1>2, PastKeeps DEF CtrlC
  <2>2. PICK ending, outputs : NextCall(ending, outputs)
    BY <1>2 DEF CtrlC
  <2>. QED
    BY <2>1, <2>2, NextCallLine
<1>3. CASE Backspace
  <2>1. out # <<>> /\ out' = SubSeq(out, 1, Len(out) - 1)
    BY <1>3 DEF Backspace, Front
  <2>2. out' \in Seq(Chars)
    BY <2>1 DEF LineInv
  <2>3. UNCHANGED <<call, browse, past>>
    BY <1>3 DEF Backspace
  <2>. QED
    BY <2>2, <2>3, PastKeeps DEF LineInv
<1>4. CASE CtrlL
  BY <1>4, PastKeeps DEF CtrlL, LineInv
<1>5. CASE CtrlU
  BY <1>5, PastKeeps DEF CtrlU, LineInv
<1>6. CASE Scroll
  BY <1>6, PastKeeps DEF Scroll, editor, LineInv
<1>7. ASSUME NEW target \in Int, Browse(target) PROVE LineInv' /\ HistoryInv'
  <2>1. HistoryInv' /\ call' = call
    BY <1>7, PastKeeps DEF Browse
  <2>2. CASE browse' = history_total /\ out' = <<>>
    <3>1. history_total \in Int
      BY DEF HistoryInv
    <3>. QED
      BY <2>1, <2>2, <3>1 DEF LineInv
  <2>3. CASE /\ console_history_at(target) # <<>>
             /\ browse' = target
             /\ LET entry == console_history_at(target)
                IN  out' = SubSeq(entry, 1, Min({limit, Len(entry)}))
    <3>1. out' \in Seq(Chars)
      BY <2>3, EntryFits, LimitInt
    <3>. QED
      BY <2>1, <2>3, <3>1 DEF LineInv
  <2>. QED
    BY <1>7, <2>2, <2>3 DEF Browse
<1>8. ASSUME NEW c \in Chars, Type(c) PROVE LineInv' /\ HistoryInv'
  <2>1. out' = Append(out, c) /\ UNCHANGED <<call, browse, past>>
    BY <1>8 DEF Type
  <2>2. out' \in Seq(Chars)
    BY <2>1 DEF LineInv
  <2>. QED
    BY <2>1, <2>2, PastKeeps DEF LineInv
<1>9. browse - 1 \in Int /\ browse + 1 \in Int
  BY DEF LineInv
<1>. QED
  BY <1>1, <1>2, <1>3, <1>4, <1>5, <1>6, <1>7, <1>8, <1>9 DEF Key

\* For every size of the ring and any keys, the history answers for the last
\* HISTORY_MAX lines with what was entered, and for no others
\* (console.c:14-39).
THEOREM HistoryCorrect == Spec => []HistoryIsLog
<1> DEFINE Inv == LineInv /\ HistoryInv
<1>1. Init => Inv
  BY DEF Init, ConsoleInit, LineInv, HistoryInv
<1>2. ASSUME Inv, [Next]_vars PROVE Inv'
  <2>1. CASE Key
    BY <1>2, <2>1, KeyKeeps
  <2>2. CASE UNCHANGED editor
    BY <1>2, <2>2, PastKeeps DEF editor, LineInv
  <2>. QED
    BY <1>2, <2>1, <2>2 DEF Next, Session, Write, Paint, console, vars
<1>3. Inv => HistoryIsLog
  BY HistoryAnswers
<1>. QED
  BY <1>1, <1>2, <1>3, PTL DEF Spec
-----------------------------------------------------------------------------
(* Numbers.                                                                *)

\* A set of naturals has a least element.
LEMMA LeastNumber ==
    ASSUME NEW T \in SUBSET Nat, T # {}
    PROVE  \E m \in T : \A n \in T : m <= n
<1> DEFINE below == {ss \in Nat \X Nat : ss[1] < ss[2]}
<1>1. IsWellFoundedOn(below, Nat)
  BY NatLessThanWellFounded, Zenon DEF OpToRel
<1> HIDE DEF below
<1>2. PICK m \in T : \A n \in T : ~ (<<n, m>> \in below)
  BY <1>1, WFMin
<1>3. ASSUME NEW n \in T PROVE m <= n
  <2>1. <<n, m>> \in below <=> n < m
    BY DEF below
  <2>. QED
    BY <1>2, <2>1
<1>. QED
  BY <1>3

\* What holds of 0 and of the next number holds of them all.
LEMMA SetInduction ==
    ASSUME NEW T, 0 \in T, \A n \in Nat : n \in T => n + 1 \in T
    PROVE  Nat \subseteq T
<1> SUFFICES ASSUME Nat \ T # {} PROVE FALSE
  OBVIOUS
<1>1. PICK m \in Nat \ T : \A n \in Nat \ T : m <= n
  BY LeastNumber
<1>2. m # 0 /\ m - 1 \in Nat
  BY <1>1
<1>3. m - 1 \in T
  BY <1>1, <1>2
<1>. QED
  BY <1>1, <1>2, <1>3

\* The greatest of numbers up to b.
LEMMA MaxIs ==
    ASSUME NEW a \in Int, NEW b \in Int, NEW T \in SUBSET (a .. b), T # {}
    PROVE  Max(T) \in T /\ \A x \in T : x <= Max(T)
<1> DEFINE below == {b - x : x \in T}
<1>1. below \in SUBSET Nat /\ below # {}
  <2>1. ASSUME NEW x \in T PROVE b - x \in Nat
    <3>1. x \in a .. b
      OBVIOUS
    <3>. QED
      BY <3>1
  <2>. QED
    BY <2>1
<1>2. PICK m \in below : \A n \in below : m <= n
  BY <1>1, LeastNumber
<1>3. PICK x \in T : m = b - x
  BY <1>2
<1>4. ASSUME NEW y \in T PROVE y <= x
  <2>1. b - x <= b - y
    BY <1>2, <1>3
  <2>. QED
    BY <2>1
<1>. QED
  BY <1>4 DEF Max

\* The smaller and the greater of two numbers.
LEMMA TwoNumbers ==
    ASSUME NEW m \in Int, NEW n \in Int
    PROVE  /\ Min({m, n}) = IF m <= n THEN m ELSE n
           /\ Max({m, n}) = IF m <= n THEN n ELSE m
<1>1. CASE m <= n
  <2>1. \A x \in {m, n} : (\A y \in {m, n} : x <= y) <=> x = m
    BY <1>1
  <2>2. \A x \in {m, n} : (\A y \in {m, n} : x >= y) <=> x = n
    BY <1>1
  <2>3. Min({m, n}) \in {m, n} /\ \A y \in {m, n} : Min({m, n}) <= y
    BY <2>1, Zenon DEF Min
  <2>4. Max({m, n}) \in {m, n} /\ \A y \in {m, n} : Max({m, n}) >= y
    BY <2>2, Zenon DEF Max
  <2>. QED
    BY <1>1, <2>1, <2>2, <2>3, <2>4
<1>2. CASE ~ (m <= n)
  <2>1. \A x \in {m, n} : (\A y \in {m, n} : x <= y) <=> x = n
    BY <1>2
  <2>2. \A x \in {m, n} : (\A y \in {m, n} : x >= y) <=> x = m
    BY <1>2
  <2>3. Min({m, n}) \in {m, n} /\ \A y \in {m, n} : Min({m, n}) <= y
    BY <2>1, Zenon DEF Min
  <2>4. Max({m, n}) \in {m, n} /\ \A y \in {m, n} : Max({m, n}) >= y
    BY <2>2, Zenon DEF Max
  <2>. QED
    BY <1>2, <2>1, <2>2, <2>3, <2>4
<1>. QED
  BY <1>1, <1>2

\* Counting around a ring of n.
LEMMA AroundRing ==
    ASSUME NEW n \in Nat \ {0}, NEW x \in Nat, x < 2 * n
    PROVE  x % n = IF x < n THEN x ELSE x - n
<1> DEFINE q == x \div n
           m == x % n
<1>1. q \in Int /\ m \in 0 .. n - 1 /\ x = n * q + m
  OBVIOUS
<1> HIDE DEF q, m
<1>2. q = 0 \/ q = 1
  <2>1. q <= -1 => n * q <= - n
    BY <1>1
  <2>2. q >= 2 => n * q >= 2 * n
    BY <1>1
  <2>3. n * q \in Int
    BY <1>1
  <2>. QED
    BY <1>1, <2>1, <2>2, <2>3
<1>3. m = IF x < n THEN x ELSE x - n
  BY <1>1, <1>2
<1>. QED
  BY <1>3 DEF m
-----------------------------------------------------------------------------
(* The scrollback.                                                         *)

Backs == [line : [0 .. SCROLLBACK_LINES - 1 -> Line],
          head : 0 .. SCROLLBACK_LINES - 1, count : 0 .. SCROLLBACK_LINES]

\* A push in numbers.
Pushed(b, l, c) ==
    /\ c \in Backs
    /\ c.line = [b.line EXCEPT ![b.head] = l]
    /\ c.head = IF b.head + 1 < SCROLLBACK_LINES THEN b.head + 1 ELSE 0
    /\ c.count = IF b.count < SCROLLBACK_LINES THEN b.count + 1 ELSE SCROLLBACK_LINES

\* A push moves the head by one place around the ring.
LEMMA PushIs ==
    ASSUME NEW b \in Backs, NEW l \in Line, NEW c, c = push_scrollback(b, l)
    PROVE  Pushed(b, l, c)
<1> DEFINE n == SCROLLBACK_LINES
           line == [b.line EXCEPT ![b.head] = l]
<1>1. n \in Nat \ {0} /\ b.head \in 0 .. n - 1 /\ b.count \in 0 .. n
      /\ b.line \in [0 .. n - 1 -> Line]
  BY VgaAssumption DEF Backs
<1> HIDE DEF n
<1>2. (b.head + 1) % n = IF b.head + 1 < n THEN b.head + 1 ELSE 0
  <2> DEFINE x == b.head + 1
  <2>1. x \in Nat /\ x <= n /\ x < 2 * n
    BY <1>1
  <2> HIDE DEF x
  <2>2. x % n = IF x < n THEN x ELSE x - n
    BY <1>1, <2>1, AroundRing
  <2>3. x % n = IF x < n THEN x ELSE 0
    BY <1>1, <2>1, <2>2
  <2>. QED
    BY <2>3 DEF x
<1>3. Min({b.count + 1, n}) = IF b.count < n THEN b.count + 1 ELSE n
  <2>1. b.count + 1 \in Int /\ n \in Int
    BY <1>1
  <2>. QED
    BY <1>1, <2>1, TwoNumbers
<1>4. line \in [0 .. n - 1 -> Line]
  BY <1>1
<1> HIDE DEF line
<1>5. c = [line |-> line, head |-> (b.head + 1) % n, count |-> Min({b.count + 1, n})]
  BY DEF push_scrollback, line, n
<1>6. c.head \in 0 .. n - 1 /\ c.count \in 0 .. n
  <2>1. c.head = IF b.head + 1 < n THEN b.head + 1 ELSE 0
    BY <1>2, <1>5
  <2>2. c.count = IF b.count < n THEN b.count + 1 ELSE n
    BY <1>3, <1>5
  <2>. QED
    BY <1>1, <2>1, <2>2
<1>7. c \in Backs
  BY <1>4, <1>5, <1>6 DEF Backs, n
<1>. QED
  BY <1>2, <1>3, <1>5, <1>7 DEF Pushed, line, n

\* The slot of line i, 0 being the oldest.
SlotOf(b, i) ==
    LET x == b.head - b.count + i + SCROLLBACK_LINES
    IN  IF x < SCROLLBACK_LINES THEN x ELSE x - SCROLLBACK_LINES

InSlot(b, i) ==
    scrollback_line(b, i) = b.line[SlotOf(b, i)] /\ SlotOf(b, i) \in 0 .. SCROLLBACK_LINES - 1

\* Where a line is, without the remainder.
LEMMA LineInSlot ==
    ASSUME NEW b \in Backs, NEW i \in Nat, i < b.count
    PROVE  InSlot(b, i)
<1> DEFINE n == SCROLLBACK_LINES
           x == b.head - b.count + i + n
<1>1. n \in Nat \ {0} /\ b.head \in 0 .. n - 1 /\ b.count \in 0 .. n
  BY VgaAssumption DEF Backs
<1> HIDE DEF n
<1>2. x \in Nat /\ x < 2 * n
  BY <1>1
<1> HIDE DEF x
<1>3. x % n = IF x < n THEN x ELSE x - n
  BY <1>1, <1>2, AroundRing
<1>4. SlotOf(b, i) = x % n /\ x % n \in 0 .. n - 1
  BY <1>1, <1>2, <1>3 DEF SlotOf, x, n
<1>5. scrollback_line(b, i) = b.line[x % n]
  BY DEF scrollback_line, x, n
<1>. QED
  BY <1>4, <1>5 DEF InSlot, n

\* b holds the last of the first n lines of s, as many as there is room for.
KeepsLast(b, s, n) ==
    /\ b.count = IF n <= SCROLLBACK_LINES THEN n ELSE SCROLLBACK_LINES
    /\ \A i \in 0 .. b.count - 1 : scrollback_line(b, i) = s[n - b.count + i + 1]

\* So it does when the next one is pushed.
LEMMA PushKeepsLast ==
    ASSUME NEW b \in Backs, NEW s, NEW n \in Nat, KeepsLast(b, s, n), s[n + 1] \in Line,
           NEW c, c = push_scrollback(b, s[n + 1])
    PROVE  KeepsLast(c, s, n + 1)
<1> DEFINE m == SCROLLBACK_LINES
           l == s[n + 1]
           h == b.head
           k == b.count
           g == c.head
           o == c.count
<1>1. m \in Nat \ {0} /\ h \in 0 .. m - 1 /\ k \in 0 .. m /\ b.line \in [0 .. m - 1 -> Line]
  BY VgaAssumption DEF Backs
<1>2. /\ c \in Backs
      /\ c.line = [b.line EXCEPT ![h] = l]
      /\ g = IF h + 1 < m THEN h + 1 ELSE 0
      /\ o = IF k < m THEN k + 1 ELSE m
  BY PushIs DEF Pushed
<1>3. /\ k = IF n <= m THEN n ELSE m
      /\ \A i \in 0 .. k - 1 : scrollback_line(b, i) = s[n - k + i + 1]
  BY DEF KeepsLast
<1>4. \A i \in 0 .. m - 1 : i # h => c.line[i] = b.line[i]
  BY <1>1, <1>2
<1>5. c.line[h] = l
  BY <1>1, <1>2
<1>6. ASSUME NEW i \in Nat, i < k PROVE InSlot(b, i)
  BY <1>6, LineInSlot
<1>7. ASSUME NEW i \in Nat, i < o PROVE InSlot(c, i)
  BY <1>2, <1>7, LineInSlot
<1>8. ASSUME NEW i \in Nat
      PROVE  /\ SlotOf(b, i) = IF h - k + i + m < m THEN h - k + i + m ELSE (h - k + i + m) - m
             /\ SlotOf(c, i) = IF g - o + i + m < m THEN g - o + i + m ELSE (g - o + i + m) - m
  BY Zenon DEF SlotOf
<1> HIDE DEF m, h, k, g, o
<1>9. o = IF n + 1 <= m THEN n + 1 ELSE m
  BY <1>1, <1>2, <1>3
<1>10. ASSUME NEW i \in 0 .. o - 1
       PROVE  scrollback_line(c, i) = s[(n + 1) - o + i + 1]
  <2> DEFINE j == IF k < m THEN i ELSE i + 1
  <2>1. i \in Nat /\ i < o /\ o \in Nat
    BY <1>1, <1>2
  <2>2. scrollback_line(c, i) = c.line[SlotOf(c, i)]
    BY <1>7, <2>1 DEF InSlot
  <2>3. CASE j = k
    <3>1. SlotOf(c, i) = h
      <4>1. i = IF k < m THEN k ELSE k - 1
        BY <1>1, <2>1, <2>3
      <4>2. SlotOf(c, i) = IF g - o + i + m < m THEN g - o + i + m ELSE (g - o + i + m) - m
        BY <1>8, <2>1
      <4>. QED
        BY <1>1, <1>2, <4>1, <4>2, SMTT(40)
    <3>2. (n + 1) - o + i + 1 = n + 1
      BY <1>1, <1>2, <2>1, <2>3
    <3>. QED
      BY <1>5, <2>2, <3>1, <3>2
  <2>4. CASE j # k
    <3>1. j \in Nat /\ j < k
      BY <1>1, <1>2, <2>1, <2>4
    <3>2. SlotOf(c, i) = SlotOf(b, j) /\ SlotOf(b, j) # h
      <4>1. SlotOf(c, i) = IF g - o + i + m < m THEN g - o + i + m ELSE (g - o + i + m) - m
        BY <1>8, <2>1
      <4>2. SlotOf(b, j) = IF h - k + j + m < m THEN h - k + j + m ELSE (h - k + j + m) - m
        BY <1>8, <3>1
      <4>. QED
        BY <1>1, <1>2, <2>1, <3>1, <4>1, <4>2, SMTT(40)
    <3>3. scrollback_line(b, j) = b.line[SlotOf(b, j)] /\ SlotOf(b, j) \in 0 .. m - 1
      BY <1>6, <3>1 DEF InSlot, m
    <3>4. c.line[SlotOf(b, j)] = b.line[SlotOf(b, j)]
      BY <1>4, <3>2, <3>3
    <3>5. j \in 0 .. k - 1
      BY <1>1, <3>1
    <3>6. n - k + j + 1 = (n + 1) - o + i + 1
      BY <1>1, <1>2, <2>1
    <3> HIDE DEF j
    <3>7. scrollback_line(b, j) = s[n - k + j + 1]
      BY <1>3, <3>5
    <3>. QED
      BY <2>2, <3>2, <3>3, <3>4, <3>6, <3>7
  <2>. QED
    BY <2>3, <2>4
<1>11. \A i \in 0 .. o - 1 : scrollback_line(c, i) = s[(n + 1) - o + i + 1]
  BY <1>10
<1>. QED
  BY <1>9, <1>11, Zenon DEF KeepsLast, m, o

\* f is the recursion behind archive_screen, on the sets of lines in D.
Archives(b, w, D, f) ==
    f = [s \in D |-> IF s = {} THEN b ELSE push_scrollback(f[s \ {Max(s)}], w[Max(s)])]

\* What FoldLeft does, in these terms.
LEMMA FoldIs ==
    \A b, w : FoldLeft(push_scrollback, b, w) =
                (CHOOSE f : Archives(b, w, SUBSET DOMAIN w, f))[DOMAIN w]
BY Zenon DEF FoldLeft, MapThenFoldSet, Archives

\* The last of the first lines.
LEMMA MaxOfFirst ==
    ASSUME NEW k \in Nat, NEW s \in SUBSET (1 .. k + 1), s # {}
    PROVE  /\ k + 1 \in s => Max(s) = k + 1
           /\ Max(s) \in s
<1> DEFINE m == Max(s)
<1>0. 1 \in Int /\ k + 1 \in Int
  OBVIOUS
<1>1. m \in s /\ \A x \in s : x <= m
  BY <1>0, MaxIs, Zenon
<1> HIDE DEF m
<1>2. \A x \in s : x \in Int /\ x <= k + 1
  OBVIOUS
<1>3. k + 1 \in s => m = k + 1
  BY <1>1, <1>2
<1>. QED
  BY <1>1, <1>3 DEF m

\* There is a function that satisfies the recursion.
LEMMA ArchivesExist ==
    ASSUME NEW b, NEW w, NEW n \in Nat
    PROVE  \E f : Archives(b, w, SUBSET (1 .. n), f)
<1> DEFINE T == {k \in Nat : \E f : Archives(b, w, SUBSET (1 .. k), f)}
<1>1. 0 \in T
  <2> DEFINE f == [s \in SUBSET (1 .. 0) |-> b]
  <2>1. f = [s \in SUBSET (1 .. 0) |->
               IF s = {} THEN b ELSE push_scrollback(f[s \ {Max(s)}], w[Max(s)])]
    OBVIOUS
  <2> HIDE DEF f
  <2>. QED
    BY <2>1 DEF Archives
<1>2. ASSUME NEW k \in Nat, k \in T PROVE k + 1 \in T
  <2>1. PICK f : Archives(b, w, SUBSET (1 .. k), f)
    BY <1>2
  <2> DEFINE v == [s \in SUBSET (1 .. k + 1) |->
                     IF k + 1 \in s THEN push_scrollback(f[s \ {k + 1}], w[k + 1]) ELSE f[s]]
  <2>2. \A s \in SUBSET (1 .. k) : s \in SUBSET (1 .. k + 1) /\ k + 1 \notin s /\ v[s] = f[s]
    OBVIOUS
  <2>3. ASSUME NEW s \in SUBSET (1 .. k + 1)
        PROVE  v[s] = IF s = {} THEN b ELSE push_scrollback(v[s \ {Max(s)}], w[Max(s)])
    <3>1. CASE k + 1 \in s
      <4>1. Max(s) = k + 1
        BY <3>1, MaxOfFirst
      <4>2. s \ {k + 1} \in SUBSET (1 .. k)
        OBVIOUS
      <4>3. v[s] = push_scrollback(f[s \ {k + 1}], w[k + 1])
        BY <3>1
      <4> HIDE DEF v
      <4>4. v[s \ {k + 1}] = f[s \ {k + 1}]
        BY <2>2, <4>2
      <4>. QED
        BY <3>1, <4>1, <4>3, <4>4
    <3>2. CASE k + 1 \notin s
      <4>1. s \in SUBSET (1 .. k)
        BY <3>2
      <4>2. v[s] = f[s]
        BY <3>2
      <4> HIDE DEF v
      <4>3. f[s] = IF s = {} THEN b ELSE push_scrollback(f[s \ {Max(s)}], w[Max(s)])
        BY <2>1, <4>1 DEF Archives
      <4>4. s \ {Max(s)} \in SUBSET (1 .. k)
        BY <4>1
      <4>5. v[s \ {Max(s)}] = f[s \ {Max(s)}]
        BY <2>2, <4>4
      <4>. QED
        BY <4>2, <4>3, <4>5
    <3>. QED
      BY <3>1, <3>2
  <2>4. v = [s \in SUBSET (1 .. k + 1) |-> v[s]]
    OBVIOUS
  <2> HIDE DEF v
  <2>5. Archives(b, w, SUBSET (1 .. k + 1), v)
    BY <2>3, <2>4 DEF Archives
  <2>. QED
    BY <2>5
<1> HIDE DEF T
<1>3. n \in T
  BY <1>1, <1>2, SetInduction
<1>. QED
  BY <1>3 DEF T

\* Behind the lines that s had first come those of w.
Follow(s, n, w) == \A i \in 1 .. Len(w) : s[n + i] = w[i]

\* Pushing lines one after the other keeps the last of them all.
LEMMA ArchiveKeepsLast ==
    ASSUME NEW b \in Backs, NEW w \in Seq(Line), NEW s, NEW n \in Nat,
           KeepsLast(b, s, n), Follow(s, n, w),
           NEW a, a = FoldLeft(push_scrollback, b, w)
    PROVE  a \in Backs /\ KeepsLast(a, s, n + Len(w))
<1> DEFINE f == CHOOSE f : Archives(b, w, SUBSET (1 .. Len(w)), f)
<1>0. Len(w) \in Nat /\ DOMAIN w = 1 .. Len(w) /\ \A i \in 1 .. Len(w) : w[i] \in Line
  OBVIOUS
<1>1. a = f[1 .. Len(w)]
  BY <1>0, FoldIs
<1>2. Archives(b, w, SUBSET (1 .. Len(w)), f)
  BY <1>0, ArchivesExist
<1> HIDE DEF f
<1>3. \A t \in SUBSET (1 .. Len(w)) :
        f[t] = IF t = {} THEN b ELSE push_scrollback(f[t \ {Max(t)}], w[Max(t)])
  BY <1>2 DEF Archives
<1> DEFINE T == {k \in Nat : k <= Len(w) => /\ f[1 .. k] \in Backs
                                            /\ KeepsLast(f[1 .. k], s, n + k)}
<1>4. 0 \in T
  <2>1. {} \in SUBSET (1 .. Len(w)) /\ 1 .. 0 = {} /\ n + 0 = n
    OBVIOUS
  <2>2. f[{}] = b
    BY <1>3, <2>1
  <2>. QED
    BY <2>1, <2>2
<1>5. ASSUME NEW k \in Nat, k \in T PROVE k + 1 \in T
  <2> SUFFICES ASSUME k + 1 <= Len(w)
               PROVE  f[1 .. k + 1] \in Backs /\ KeepsLast(f[1 .. k + 1], s, n + (k + 1))
    OBVIOUS
  <2>1. k <= Len(w)
    BY <1>0
  <2>2. f[1 .. k] \in Backs /\ KeepsLast(f[1 .. k], s, n + k)
    BY <1>5, <2>1
  <2>3. k + 1 \in 1 .. k + 1 /\ 1 .. k + 1 \in SUBSET (1 .. Len(w)) /\ k + 1 \in 1 .. Len(w)
        /\ (1 .. k + 1) \ {k + 1} = 1 .. k
    BY <1>0
  <2>4. Max(1 .. k + 1) = k + 1
    BY <2>3, MaxOfFirst
  <2>5. f[1 .. k + 1] = push_scrollback(f[1 .. k], w[k + 1])
    BY <1>3, <2>3, <2>4
  <2>6. s[(n + k) + 1] = w[k + 1] /\ w[k + 1] \in Line /\ n + k \in Nat
        /\ (n + k) + 1 = n + (k + 1)
    BY <1>0, <2>3 DEF Follow
  <2>7. f[1 .. k + 1] \in Backs
    BY <2>2, <2>5, <2>6, PushIs DEF Pushed
  <2>8. KeepsLast(f[1 .. k + 1], s, (n + k) + 1)
    BY <2>2, <2>5, <2>6, PushKeepsLast
  <2>. QED
    BY <2>6, <2>7, <2>8
<1> HIDE DEF T
<1>6. Len(w) \in T
  BY <1>0, <1>4, <1>5, SetInduction
<1>. QED
  BY <1>0, <1>1, <1>6 DEF T
-----------------------------------------------------------------------------
(* The display.                                                            *)

Out == Glyphs \union {"newline", "backspace"}

\* What the session's repaint has painted so far shows the view, and outside
\* one all of it does, unless the view was moved under a repaint.
PaintedOK ==
    ~ torn =>
        IF paint = NULL
        THEN vram = View /\ crtc = move_hardware_cursor(view_offset)
        ELSE /\ paint.offset = view_offset
             /\ \A row \in Rows : row < paint.row => vram[row] = Source(row, view_offset)

VgaInv == VgaTypeOK /\ PaintedOK

\* Height, width and length of the scrollback.
LEMMA Sizes ==
    /\ VGA_WIDTH \in Nat /\ VGA_WIDTH >= 1
    /\ VGA_HEIGHT \in Nat /\ VGA_HEIGHT >= 2
    /\ SCROLLBACK_LINES \in Nat /\ SCROLLBACK_LINES >= 1
    /\ 0 \in Rows /\ 0 \in Cols /\ VGA_HEIGHT - 1 \in Rows /\ VGA_WIDTH - 1 \in Cols
    /\ BlankLine \in Line
    /\ [row \in Rows |-> BlankLine] \in [Rows -> Line]
<1>1. /\ VGA_WIDTH \in Nat /\ VGA_WIDTH >= 1
      /\ VGA_HEIGHT \in Nat /\ VGA_HEIGHT >= 2
      /\ SCROLLBACK_LINES \in Nat /\ SCROLLBACK_LINES >= 1
  <2>1. VGA_WIDTH \in Nat \ {0} /\ VGA_HEIGHT \in Nat \ {0, 1} /\ SCROLLBACK_LINES \in Nat \ {0}
    BY VgaAssumption, Zenon
  <2>. QED
    BY <2>1
<1>2. BlankLine \in Line
  BY DEF BlankLine, Line
<1>. QED
  BY <1>1, <1>2 DEF Rows, Cols

\* No glyph is a control character.
LEMMA GlyphFacts == \A c \in Glyphs : c # "newline" /\ c # "backspace" /\ c # " "
BY VgaAssumption

CursorMoves(c) ==
    /\ Moved(c)[1] \in 0 .. VGA_HEIGHT /\ Moved(c)[2] \in Cols
    /\ Moved(c) = <<Moved(c)[1], Moved(c)[2]>>
    /\ Moved(c)[1] = VGA_HEIGHT => cursor[1] = VGA_HEIGHT - 1 /\ c # "backspace"
    /\ Moved(c)[1] < VGA_HEIGHT => Moved(c) \in Rows \X Cols

\* A character takes the cursor to a cell, or to the row below the last.
LEMMA MovedIs ==
    ASSUME cursor \in Rows \X Cols, NEW c \in Out
    PROVE  CursorMoves(c)
<1>1. PICK row \in Rows, col \in Cols : cursor = <<row, col>>
  OBVIOUS
<1>2. cursor[1] = row /\ cursor[2] = col /\ row \in 0 .. VGA_HEIGHT - 1 /\ col \in 0 .. VGA_WIDTH - 1
  BY <1>1 DEF Rows, Cols
<1>3. CASE c = "newline"
  <2>1. Moved(c) = <<row + 1, 0>>
    BY <1>2, <1>3 DEF Moved
  <2>. QED
    BY <1>2, <1>3, <2>1, Sizes DEF CursorMoves, Rows, Cols
<1>4. CASE c = "backspace"
  <2>1. CASE col > 0
    <3>1. Moved(c) = <<row, col - 1>>
      BY <1>2, <1>4, <2>1 DEF Moved
    <3>. QED
      BY <1>2, <1>4, <2>1, <3>1, Sizes DEF CursorMoves, Rows, Cols
  <2>2. CASE col = 0 /\ row > 0
    <3>1. Moved(c) = <<row - 1, VGA_WIDTH - 1>>
      BY <1>2, <1>4, <2>2 DEF Moved
    <3>. QED
      BY <1>2, <1>4, <2>2, <3>1, Sizes DEF CursorMoves, Rows, Cols
  <2>3. CASE col = 0 /\ row = 0
    <3>1. Moved(c) = <<row, col>>
      BY <1>1, <1>2, <1>4, <2>3 DEF Moved
    <3>. QED
      BY <1>2, <1>4, <2>3, <3>1, Sizes DEF CursorMoves, Rows, Cols
  <2>. QED
    BY <1>2, <2>1, <2>2, <2>3, Sizes
<1>5. CASE c # "newline" /\ c # "backspace"
  <2>1. CASE col + 1 = VGA_WIDTH
    <3>1. Moved(c) = <<row + 1, 0>>
      BY <1>2, <1>5, <2>1 DEF Moved
    <3>. QED
      BY <1>2, <1>5, <3>1, Sizes DEF CursorMoves, Rows, Cols
  <2>2. CASE col + 1 # VGA_WIDTH
    <3>1. Moved(c) = <<row, col + 1>>
      BY <1>2, <1>5, <2>2 DEF Moved
    <3>. QED
      BY <1>2, <1>5, <2>2, <3>1, Sizes DEF CursorMoves, Rows, Cols
  <2>. QED
    BY <2>1, <2>2
<1>. QED
  BY <1>3, <1>4, <1>5

\* One cell written anew.
LEMMA CellWritten ==
    ASSUME NEW s \in [Rows -> Line], NEW row \in Rows, NEW col \in Cols,
           NEW c \in Glyphs \union {" "}
    PROVE  [s EXCEPT ![row][col] = c] \in [Rows -> Line]
<1>1. [s[row] EXCEPT ![col] = c] \in Line
  BY DEF Line
<1>. QED
  BY <1>1

\* The screen stays a screen.
LEMMA MarkedIs ==
    ASSUME NEW s \in [Rows -> Line], cursor \in Rows \X Cols, NEW c \in Out
    PROVE  Marked(s, c) \in [Rows -> Line]
<1>1. CASE c = "newline"
  BY <1>1 DEF Marked
<1>2. CASE c = "backspace"
  <2>1. Moved(c)[1] \in 0 .. VGA_HEIGHT /\ Moved(c)[1] # VGA_HEIGHT /\ Moved(c)[2] \in Cols
    BY <1>2, MovedIs DEF CursorMoves
  <2>2. Moved(c)[1] \in Rows
    BY <2>1, Sizes DEF Rows
  <2>3. Marked(s, c) = [s EXCEPT ![Moved(c)[1]][Moved(c)[2]] = " "]
    BY <1>2 DEF Marked
  <2>4. PICK row \in Rows, col \in Cols : row = Moved(c)[1] /\ col = Moved(c)[2]
    BY <2>1, <2>2
  <2>5. [s EXCEPT ![row][col] = " "] \in [Rows -> Line]
    BY CellWritten
  <2>. QED
    BY <2>3, <2>4, <2>5
<1>3. CASE c # "newline" /\ c # "backspace"
  <2>1. Marked(s, c) = [s EXCEPT ![cursor[1]][cursor[2]] = c] /\ c \in Glyphs
    BY <1>3 DEF Marked, Out
  <2>2. PICK row \in Rows, col \in Cols : row = cursor[1] /\ col = cursor[2]
    OBVIOUS
  <2>3. [s EXCEPT ![row][col] = c] \in [Rows -> Line]
    BY <2>1, CellWritten
  <2>. QED
    BY <2>1, <2>2, <2>3
<1>. QED
  BY <1>1, <1>2, <1>3

\* What is archived is a sequence of lines.
LEMMA WrittenIs == ASSUME NEW s \in [Rows -> Line] PROVE Written(s) \in Seq(Line)
<1> DEFINE T == {-1} \union {r \in Rows : s[r] # BlankLine}
           last == Max(T)
<1>1. T \in SUBSET (-1 .. VGA_HEIGHT) /\ T # {} /\ -1 \in Int /\ VGA_HEIGHT \in Int
  BY Sizes DEF Rows
<1>2. last \in T
  <2> HIDE DEF T
  <2>. QED
    BY <1>1, MaxIs, Zenon
<1>3. last \in Int /\ last >= -1 /\ last <= VGA_HEIGHT - 1
  BY <1>2, Sizes DEF Rows
<1>4. Written(s) = [i \in 1 .. last + 1 |-> s[i - 1]]
  BY DEF Written
<1> HIDE DEF last, T
<1>5. \A i \in 1 .. last + 1 : i - 1 \in Rows
  BY <1>3, Sizes DEF Rows
<1>6. Written(s) \in [1 .. last + 1 -> Line] /\ last + 1 \in Nat
  BY <1>3, <1>4, <1>5
<1>. QED
  BY <1>6

\* A row of the view is a line; at the bottom it is the row of the screen.
LEMMA SourceIs ==
    ASSUME screen \in [Rows -> Line], back \in Backs, NEW o \in 0 .. back.count, NEW row \in Rows
    PROVE  Source(row, o) \in Line /\ (o = 0 => Source(row, o) = screen[row])
<1> DEFINE n == back.count
           i == n - o + row
<1>1. n \in Nat /\ o \in Nat /\ o <= n /\ row \in 0 .. VGA_HEIGHT - 1
  BY Sizes DEF Backs, Rows
<1>2. Source(row, o) = IF i < n THEN scrollback_line(back, i) ELSE screen[i - n]
  BY DEF Source
<1> HIDE DEF n
<1>3. CASE i < n
  <2>1. i \in Nat
    BY <1>1
  <2> HIDE DEF i
  <2>2. InSlot(back, i)
    BY <1>3, <2>1, LineInSlot DEF n
  <2>3. Source(row, o) \in Line
    <3>1. back.line \in [0 .. SCROLLBACK_LINES - 1 -> Line]
      BY DEF Backs
    <3>2. Source(row, o) = back.line[SlotOf(back, i)] /\ SlotOf(back, i) \in 0 .. SCROLLBACK_LINES - 1
      BY <1>2, <1>3, <2>2 DEF InSlot
    <3>. QED
      BY <3>1, <3>2
  <2>. QED
    BY <1>1, <1>3, <2>3 DEF i
<1>4. CASE ~ (i < n)
  <2>1. i - n = row - o /\ row - o \in 0 .. VGA_HEIGHT - 1
    BY <1>1, <1>4, Sizes
  <2>2. i - n \in Rows /\ (o = 0 => i - n = row)
    BY <1>1, <2>1 DEF Rows
  <2> HIDE DEF i
  <2>. QED
    BY <1>2, <1>4, <2>2
<1>. QED
  BY <1>3, <1>4

\* Not scrolled back, the view is the screen and the cursor is shown.
LEMMA BottomView ==
    VgaTypeOK /\ view_offset = 0 => View = screen /\ move_hardware_cursor(view_offset) = cursor
<1> SUFFICES ASSUME VgaTypeOK, view_offset = 0
             PROVE  View = screen /\ move_hardware_cursor(view_offset) = cursor
  OBVIOUS
<1>1. screen \in [Rows -> Line] /\ back \in Backs /\ view_offset \in 0 .. back.count
  BY DEF VgaTypeOK, Backs
<1>2. \A row \in Rows : Source(row, view_offset) = screen[row]
  BY <1>1, SourceIs
<1>3. View = screen
  BY <1>1, <1>2 DEF View
<1>. QED
  BY <1>3 DEF move_hardware_cursor

\* A character is written where video memory shows it (vga.c:155-206).
LEMMA PutcKeeps ==
    ASSUME VgaInv, paint = NULL, NEW c \in Out, vga_putc(c)
    PROVE  VgaInv'
<1>1. /\ screen \in [Rows -> Line] /\ vram \in [Rows -> Line] /\ back \in Backs
      /\ cursor \in Rows \X Cols /\ torn \in BOOLEAN
  BY DEF VgaInv, VgaTypeOK, Backs
<1>2. view_offset' = 0 /\ crtc' = cursor' /\ paint' = NULL
  BY DEF vga_putc
<1>3. ASSUME back' \in Backs, screen' \in [Rows -> Line], vram' \in [Rows -> Line],
             cursor' \in Rows \X Cols, torn' \in BOOLEAN,
             torn' \/ vram' = screen'
      PROVE  VgaInv'
  <2>1. VgaTypeOK'
    <3>1. 0 \in 0 .. back'.count
      BY <1>3 DEF Backs
    <3>. QED
      BY <1>2, <1>3, <3>1 DEF VgaTypeOK, Backs
  <2>2. (VgaTypeOK /\ view_offset = 0 =>
            View = screen /\ move_hardware_cursor(view_offset) = cursor)'
    BY BottomView, PTL
  <2>. QED
    BY <1>2, <1>3, <2>1, <2>2 DEF VgaInv, PaintedOK
<1>4. Marked(screen, c) \in [Rows -> Line] /\ Marked(vram, c) \in [Rows -> Line]
  BY <1>1, MarkedIs
<1>5. CursorMoves(c)
  BY <1>1, MovedIs
<1>6. CASE Moved(c)[1] < VGA_HEIGHT
  <2>1. /\ screen' = Marked(screen, c) /\ cursor' = Moved(c) /\ back' = back
        /\ vram' = Marked(IF view_offset = 0 THEN vram ELSE screen, c)
        /\ torn' = (torn /\ view_offset = 0)
    BY <1>6 DEF vga_putc
  <2>2. torn' \/ vram' = screen'
    <3>1. CASE view_offset = 0 /\ ~ torn
      <4>1. vram = screen
        BY <3>1, BottomView DEF VgaInv, PaintedOK
      <4>. QED
        BY <2>1, <3>1, <4>1
    <3>2. CASE view_offset = 0 /\ torn
      BY <2>1, <3>2
    <3>3. CASE view_offset # 0
      BY <2>1, <3>3
    <3>. QED
      BY <3>1, <3>2, <3>3
  <2>3. cursor' \in Rows \X Cols
    BY <1>5, <1>6, <2>1 DEF CursorMoves
  <2>4. vram' \in [Rows -> Line]
    <3>1. CASE view_offset = 0
      BY <1>4, <2>1, <3>1
    <3>2. CASE view_offset # 0
      BY <1>4, <2>1, <3>2
    <3>. QED
      BY <3>1, <3>2
  <2>5. torn' \in BOOLEAN
    BY <2>1
  <2>. QED
    BY <1>1, <1>3, <1>4, <2>1, <2>2, <2>3, <2>4, <2>5
<1>7. CASE ~ (Moved(c)[1] < VGA_HEIGHT)
  <2>1. /\ back' = push_scrollback(back, Marked(screen, c)[0])
        /\ screen' = [row \in Rows |-> IF row = VGA_HEIGHT - 1 THEN BlankLine
                                       ELSE Marked(screen, c)[row + 1]]
        /\ cursor' = <<VGA_HEIGHT - 1, Moved(c)[2]>>
        /\ vram' = screen'
        /\ torn' = FALSE
    BY <1>7 DEF vga_putc
  <2>2. back' \in Backs
    <3>1. Marked(screen, c)[0] \in Line
      BY <1>4, Sizes
    <3>. QED
      BY <1>1, <2>1, <3>1, PushIs DEF Pushed
  <2>3. screen' \in [Rows -> Line]
    <3>1. \A row \in Rows : row # VGA_HEIGHT - 1 => row + 1 \in Rows
      BY Sizes DEF Rows
    <3>2. \A row \in Rows : row # VGA_HEIGHT - 1 => Marked(screen, c)[row + 1] \in Line
      BY <1>4, <3>1
    <3>. QED
      BY <2>1, <3>2, Sizes
  <2>4. cursor' \in Rows \X Cols
    BY <1>5, <2>1, Sizes DEF CursorMoves
  <2>. QED
    BY <1>3, <2>1, <2>2, <2>3, <2>4
<1>. QED
  BY <1>6, <1>7

\* A repaint of the session begins.
LEMMA BeginKeeps ==
    ASSUME VgaInv, paint = NULL, RepaintBegin, UNCHANGED <<vram, crtc>>,
           back' \in Backs, screen' \in [Rows -> Line], cursor' \in Rows \X Cols,
           view_offset' \in 0 .. back'.count
    PROVE  VgaInv'
<1>1. /\ paint' = [row |-> 0, offset |-> view_offset'] /\ torn' = FALSE
      /\ vram' = vram /\ crtc' = crtc
  BY DEF RepaintBegin
<1>2. paint' \in [row : 0 .. VGA_HEIGHT, offset : 0 .. back'.count]
  BY <1>1, Sizes
<1>3. view_offset' \in Nat /\ 0 \in Nat
  BY DEF Backs
<1>4. paint' # NULL
  BY <1>1, <1>3, VgaNullAssumption
<1>5. VgaTypeOK'
  BY <1>1, <1>2 DEF VgaInv, VgaTypeOK, Backs
<1>6. PaintedOK'
  BY <1>1, <1>4 DEF PaintedOK, Rows
<1>. QED
  BY <1>5, <1>6 DEF VgaInv

\* Its lines, the oldest first.
Lines(b) == [i \in 1 .. b.count |-> scrollback_line(b, i - 1)]

LinesThen(b, w, all) ==
    /\ all \in Seq(Line) /\ Len(all) = b.count + Len(w) /\ b.count \in Nat
    /\ KeepsLast(b, all, b.count)
    /\ Follow(all, b.count, w)

\* The lines of b, and w behind them.
LEMMA LinesAre ==
    ASSUME NEW b \in Backs, NEW w \in Seq(Line), NEW all, all = Lines(b) \o w
    PROVE  LinesThen(b, w, all)
<1> DEFINE k == b.count
           s == Lines(b)
<1>1. k \in Nat /\ k <= SCROLLBACK_LINES /\ SCROLLBACK_LINES \in Nat
  BY Sizes DEF Backs
<1>2. s = [i \in 1 .. k |-> scrollback_line(b, i - 1)]
  BY DEF Lines
<1> HIDE DEF s, k
<1>3. \A i \in 0 .. k - 1 : scrollback_line(b, i) \in Line
  <2> SUFFICES ASSUME NEW i \in 0 .. k - 1 PROVE scrollback_line(b, i) \in Line
    OBVIOUS
  <2>1. i \in Nat /\ i < b.count
    BY <1>1 DEF k
  <2>2. InSlot(b, i)
    BY <2>1, LineInSlot
  <2>. QED
    BY <2>2 DEF InSlot, Backs
<1>4. \A i \in 1 .. k : i - 1 \in 0 .. k - 1
  BY <1>1
<1>5. s \in [1 .. k -> Line]
  BY <1>2, <1>3, <1>4
<1>6. s \in Seq(Line) /\ Len(s) = k
  BY <1>1, <1>5
<1>7. all = s \o w
  BY DEF s
<1>8. all \in Seq(Line) /\ Len(all) = k + Len(w)
  <2>1. s \o w \in Seq(Line) /\ Len(s \o w) = Len(s) + Len(w)
    BY <1>6, ConcatProperties
  <2>. QED
    BY <1>6, <1>7, <2>1
<1>9. KeepsLast(b, all, k)
  <2>1. ASSUME NEW i \in 0 .. k - 1 PROVE scrollback_line(b, i) = all[k - k + i + 1]
    <3>1. i + 1 \in 1 .. k /\ k - k + i + 1 = i + 1 /\ (i + 1) - 1 = i
      BY <1>1
    <3>2. all[i + 1] = s[i + 1]
      BY <1>6, <1>7, <3>1
    <3>3. s[i + 1] = scrollback_line(b, i)
      BY <1>2, <3>1
    <3>. QED
      BY <3>1, <3>2, <3>3
  <2>2. k = IF k <= SCROLLBACK_LINES THEN k ELSE SCROLLBACK_LINES
    BY <1>1
  <2>. QED
    BY <2>1, <2>2 DEF KeepsLast, k
<1>10. Follow(all, k, w)
  <2>1. ASSUME NEW i \in 1 .. Len(w) PROVE all[k + i] = w[i]
    BY <1>1, <1>6, <1>7
  <2>. QED
    BY <2>1 DEF Follow
<1>. QED
  BY <1>1, <1>8, <1>9, <1>10 DEF LinesThen, k

\* All that is on the screen goes to the scrollback (vga.c:105-121).
LEMMA ArchiveIs ==
    ASSUME NEW b \in Backs, NEW s \in [Rows -> Line], NEW all, all = Lines(b) \o Written(s)
    PROVE  /\ archive_screen(b, s) \in Backs
           /\ KeepsLast(archive_screen(b, s), all, Len(all))
           /\ all \in Seq(Line)
<1> DEFINE w == Written(s)
           a == FoldLeft(push_scrollback, b, w)
<1>1. w \in Seq(Line)
  BY WrittenIs
<1>2. archive_screen(b, s) = a
  BY Zenon DEF archive_screen
<1> HIDE DEF w
<1>3. LinesThen(b, w, all)
  BY <1>1, LinesAre DEF w
<1>4. /\ b.count \in Nat /\ KeepsLast(b, all, b.count) /\ Follow(all, b.count, w)
      /\ Len(all) = b.count + Len(w) /\ all \in Seq(Line)
  BY <1>3 DEF LinesThen
<1> HIDE DEF a
<1>5. a \in Backs /\ KeepsLast(a, all, b.count + Len(w))
  BY <1>1, <1>4, ArchiveKeepsLast, Zenon DEF a
<1>. QED
  BY <1>2, <1>4, <1>5

\* The screen is cleared and its repaint begins (vga.c:123-135).
LEMMA ClearKeeps == ASSUME VgaInv, paint = NULL, vga_clear PROVE VgaInv'
<1>1. back \in Backs /\ screen \in [Rows -> Line]
  BY DEF VgaInv, VgaTypeOK, Backs
<1>2. back' \in Backs
  BY <1>1, ArchiveIs DEF vga_clear
<1>3. view_offset' \in 0 .. back'.count
  BY <1>2 DEF vga_clear, Backs
<1>4. screen' \in [Rows -> Line] /\ cursor' \in Rows \X Cols
  BY Sizes DEF vga_clear
<1>. QED
  BY <1>2, <1>3, <1>4, BeginKeeps DEF vga_clear

\* A scroll stays within the scrollback.
LEMMA TargetIn ==
    ASSUME VgaTypeOK, NEW lines \in Int
    PROVE  Target(lines) \in 0 .. back.count
<1> DEFINE n == back.count
           x == view_offset + lines
           m == Min({x, n})
<1>1. n \in Nat /\ x \in Int
  BY Sizes DEF VgaTypeOK
<1>2. Target(lines) = Max({0, m})
  BY DEF Target
<1> HIDE DEF n, x
<1>3. m = IF x <= n THEN x ELSE n
  BY <1>1, TwoNumbers
<1>4. m \in Int /\ m <= n
  BY <1>1, <1>3
<1> HIDE DEF m
<1>5. Max({0, m}) = IF 0 <= m THEN m ELSE 0
  BY <1>4, TwoNumbers
<1>. QED
  BY <1>1, <1>2, <1>4, <1>5 DEF n

\* The session scrolls (vga.c:228-249).
LEMMA SessionScrollKeeps ==
    ASSUME VgaInv, paint = NULL, NEW target \in 0 .. back.count, ScrollInSession(target)
    PROVE  VgaInv'
<1>1. view_offset' = target /\ UNCHANGED <<screen, back, cursor, vram, crtc>>
  BY DEF ScrollInSession
<1>2. CASE target = view_offset
  BY <1>1, <1>2 DEF ScrollInSession, VgaInv, VgaTypeOK, PaintedOK, View, Source,
                    move_hardware_cursor, scrollback_line
<1>3. CASE target # view_offset
  <2>1. RepaintBegin
    BY <1>3 DEF ScrollInSession
  <2>. QED
    BY <1>1, <2>1, BeginKeeps DEF VgaInv, VgaTypeOK, Backs
<1>. QED
  BY <1>2, <1>3

\* The handler scrolls, and repaints at once; a repaint of the session that
\* it interrupts goes on with the old view.
LEMMA HandlerScrollKeeps ==
    ASSUME VgaInv, NEW lines \in Int, ScrollInHandler(lines)
    PROVE  VgaInv'
<1>0. VgaTypeOK
  BY DEF VgaInv
<1>1. view_offset' = Target(lines) /\ UNCHANGED <<screen, back, cursor, paint>>
  BY DEF ScrollInHandler
<1>2. Target(lines) \in 0 .. back.count
  BY <1>0, TargetIn
<1>3. CASE Target(lines) = view_offset
  BY <1>1, <1>3 DEF ScrollInHandler, VgaInv, VgaTypeOK, PaintedOK, View, Source,
                    move_hardware_cursor, scrollback_line
<1>4. CASE Target(lines) # view_offset
  <2>1. vram' = View' /\ crtc' = move_hardware_cursor(view_offset)' /\ torn' = (paint # NULL)
    BY <1>4 DEF ScrollInHandler, Repaint
  <2>2. View' = [row \in Rows |-> Source(row, Target(lines))]
    BY <1>1 DEF View, Source, scrollback_line
  <2>3. \A row \in Rows : Source(row, Target(lines)) \in Line
    <3>1. screen \in [Rows -> Line] /\ back \in Backs
      BY <1>0 DEF VgaTypeOK, Backs
    <3>. QED
      BY <1>2, <3>1, SourceIs
  <2>4. vram' \in [Rows -> Line]
    BY <2>1, <2>2, <2>3
  <2>5. crtc' \in (Rows \X Cols) \union {NULL}
    BY <1>0, <1>1, <2>1 DEF move_hardware_cursor, VgaTypeOK
  <2>6. torn' \in BOOLEAN
    BY <2>1
  <2>7. VgaTypeOK'
    BY <1>0, <1>1, <1>2, <2>4, <2>5, <2>6 DEF VgaTypeOK
  <2>8. PaintedOK'
    BY <1>1, <2>1 DEF PaintedOK
  <2>. QED
    BY <2>7, <2>8 DEF VgaInv
<1>. QED
  BY <1>3, <1>4

\* The repaint goes on by a line.
LEMMA PaintLineKeeps == ASSUME VgaInv, PaintLine PROVE VgaInv'
<1>1. /\ paint # NULL /\ paint.row < VGA_HEIGHT
      /\ vram' = [vram EXCEPT ![paint.row] = Source(paint.row, paint.offset)]
      /\ paint' = [paint EXCEPT !.row = paint.row + 1]
      /\ UNCHANGED <<screen, back, view_offset, cursor, crtc, torn>>
  BY DEF PaintLine
<1>2. /\ screen \in [Rows -> Line] /\ vram \in [Rows -> Line] /\ back \in Backs
      /\ paint \in [row : 0 .. VGA_HEIGHT, offset : 0 .. back.count]
  BY <1>1 DEF VgaInv, VgaTypeOK, Backs
<1>3. PICK r \in 0 .. VGA_HEIGHT, o \in 0 .. back.count : paint = [row |-> r, offset |-> o]
  BY <1>2
<1>4. r \in Rows /\ r + 1 \in 0 .. VGA_HEIGHT /\ paint.row = r /\ paint.offset = o
  BY <1>1, <1>3, Sizes DEF Rows
<1>5. paint' = [row |-> r + 1, offset |-> o]
  BY <1>1, <1>3
<1>6. Source(r, o) \in Line
  BY <1>2, <1>4, SourceIs
<1>7. vram' = [vram EXCEPT ![r] = Source(r, o)]
  BY <1>1, <1>4
<1>8. VgaTypeOK'
  <2>1. vram' \in [Rows -> Line]
    BY <1>2, <1>6, <1>7
  <2>2. paint' \in [row : 0 .. VGA_HEIGHT, offset : 0 .. back'.count]
    BY <1>1, <1>4, <1>5
  <2>. QED
    BY <1>1, <2>1, <2>2 DEF VgaInv, VgaTypeOK
<1>9. PaintedOK'
  <2>0. paint' # NULL
    <3>1. r + 1 \in Nat /\ o \in Nat
      BY <1>2, <1>4 DEF Backs
    <3>. QED
      BY <1>5, <3>1, VgaNullAssumption
  <2>1. ASSUME ~ torn
        PROVE  o = view_offset /\ \A row \in Rows : row < r + 1 => vram'[row] = Source(row, view_offset)
    <3>1. o = view_offset /\ \A row \in Rows : row < r => vram[row] = Source(row, view_offset)
      BY <1>1, <1>4, <2>1 DEF VgaInv, PaintedOK
    <3>2. ASSUME NEW row \in Rows, row < r + 1 PROVE vram'[row] = Source(row, view_offset)
      <4>1. CASE row = r
        BY <1>2, <1>4, <1>7, <3>1, <4>1
      <4>2. CASE row # r
        <5>1. row < r
          BY <1>4, <3>2, <4>2, Sizes DEF Rows
        <5>. QED
          BY <1>2, <1>7, <3>1, <4>2, <5>1
      <4>. QED
        BY <4>1, <4>2
    <3>. QED
      BY <3>1, <3>2
  <2>2. \A row : Source(row, view_offset)' = Source(row, view_offset)
    BY <1>1 DEF Source, scrollback_line
  <2>3. paint'.row = r + 1 /\ paint'.offset = o /\ torn' = torn /\ view_offset' = view_offset
    BY <1>1, <1>5
  <2>. QED
    BY <2>0, <2>1, <2>2, <2>3 DEF PaintedOK
<1>. QED
  BY <1>8, <1>9 DEF VgaInv

\* Behind the last line the hardware cursor is set, and the repaint is whole.
LEMMA PaintCursorKeeps == ASSUME VgaInv, PaintCursor PROVE VgaInv'
<1>1. /\ paint # NULL /\ paint.row = VGA_HEIGHT
      /\ crtc' = move_hardware_cursor(paint.offset)
      /\ paint' = NULL
      /\ UNCHANGED <<screen, back, view_offset, cursor, vram, torn>>
  BY DEF PaintCursor
<1>2. VgaTypeOK'
  BY <1>1 DEF VgaInv, VgaTypeOK, move_hardware_cursor
<1>3. PaintedOK'
  <2>1. ASSUME ~ torn PROVE vram = View /\ paint.offset = view_offset
    <3>1. /\ paint.offset = view_offset
          /\ \A row \in Rows : row < VGA_HEIGHT => vram[row] = Source(row, view_offset)
      BY <1>1, <2>1 DEF VgaInv, PaintedOK
    <3>2. \A row \in Rows : row < VGA_HEIGHT
      BY Sizes DEF Rows
    <3>3. vram \in [Rows -> Line]
      BY DEF VgaInv, VgaTypeOK
    <3>. QED
      BY <3>1, <3>2, <3>3 DEF View
  <2>2. View' = View /\ move_hardware_cursor(view_offset)' = move_hardware_cursor(view_offset)
    BY <1>1 DEF View, Source, scrollback_line, move_hardware_cursor
  <2>. QED
    BY <1>1, <2>1, <2>2 DEF PaintedOK
<1>. QED
  BY <1>2, <1>3 DEF VgaInv

\* A call of the session.
LEMMA WriteKeeps == ASSUME VgaInv, Write PROVE VgaInv'
<1> DEFINE it == Head(agenda)
<1>1. /\ paint = NULL
      /\ \/ it \in Out /\ vga_putc(it)
         \/ it = "clear" /\ vga_clear
         \/ it = "bottom" /\ ScrollInSession(0)
         \/ it = "pageup" /\ ScrollInSession(Target(PAGE_STEP))
         \/ it = "pagedown" /\ ScrollInSession(Target(-PAGE_STEP))
         \/ it = "up" /\ ScrollInSession(Target(SCROLL_STEP))
         \/ it = "down" /\ ScrollInSession(Target(-SCROLL_STEP))
  BY DEF Write, Out
<1> HIDE DEF it
<1>2. \A lines \in Int : Target(lines) \in 0 .. back.count
  BY TargetIn DEF VgaInv
<1>3. \A lines \in {PAGE_STEP, -PAGE_STEP, SCROLL_STEP, -SCROLL_STEP} : lines \in Int
  BY ConsoleAssumption
<1>4. 0 \in 0 .. back.count
  BY DEF VgaInv, VgaTypeOK
<1>5. CASE \E target \in 0 .. back.count : ScrollInSession(target)
  BY <1>1, <1>5, SessionScrollKeeps
<1>. QED
  BY <1>1, <1>2, <1>3, <1>4, <1>5, PutcKeeps, ClearKeeps

\* A byte from the mouse.
LEMMA ByteScrollKeeps == ASSUME VgaInv, MouseByte PROVE VgaInv'
<1>1. PICK byte \in 0 .. 15 : mouse_callback(byte)
  BY DEF MouseByte
<1>2. CASE UNCHANGED vga
  BY <1>2 DEF VgaInv, VgaTypeOK, PaintedOK, View, Source, move_hardware_cursor,
              scrollback_line, vga
<1>3. CASE ScrollInHandler(-Notches(byte) * LINES_PER_NOTCH)
  <2>1. Notches(byte) \in Int
    BY DEF Notches
  <2>2. Notches(byte) * LINES_PER_NOTCH \in Int
    BY <2>1, MouseAssumption
  <2>3. -Notches(byte) * LINES_PER_NOTCH \in Int
    BY <2>2
  <2>. QED
    BY <1>3, <2>3, HandlerScrollKeeps
<1>. QED
  BY <1>1, <1>2, <1>3 DEF mouse_callback

\* Every step of the system.
LEMMA VgaInvKept == VgaInv /\ [Next]_vars => VgaInv'
<1> SUFFICES ASSUME VgaInv, [Next]_vars PROVE VgaInv'
  OBVIOUS
<1>1. CASE UNCHANGED vga
  BY <1>1 DEF VgaInv, VgaTypeOK, PaintedOK, View, Source, move_hardware_cursor,
              scrollback_line, vga
<1>. QED
  BY <1>1, WriteKeeps, PaintLineKeeps, PaintCursorKeeps, ByteScrollKeeps
  DEF Next, Session, Key, Paint, LoseByte, vars

\* The display begins blank.
LEMMA VgaInvInit == VgaInit => VgaInv
<1> SUFFICES ASSUME VgaInit PROVE VgaInv
  OBVIOUS
<1>1. VgaTypeOK
  <2>1. 0 \in 0 .. SCROLLBACK_LINES - 1 /\ 0 \in 0 .. SCROLLBACK_LINES /\ 0 \in 0 .. 0
    BY Sizes
  <2>2. back \in Backs /\ back.count = 0
    BY <2>1, Sizes DEF VgaInit, Backs
  <2>. QED
    BY <2>1, <2>2, Sizes DEF VgaInit, VgaTypeOK, Backs
<1>. QED
  BY <1>1, BottomView DEF VgaInit, VgaInv, PaintedOK

\* However output, clearing, scrolling and the wheel fall together, also in
\* the middle of a repaint, video memory and the hardware cursor show the
\* view, but for a repaint under way and the remains of one that the wheel
\* came into (vga.c:13-15).
THEOREM DisplayMirrors == Spec => []Mirrors
<1>1. VgaInv => Mirrors
  BY DEF VgaInv, PaintedOK, Mirrors
<1>. QED
  BY <1>1, VgaInvInit, VgaInvKept, PTL DEF Spec, Init
-----------------------------------------------------------------------------
(* The line.                                                               *)

\* What stands on the screen is as long as the line, unless nothing is shown.
EditorInv ==
    /\ ConsoleTypeOK
    /\ drawn = IF call.echo = "hidden" THEN 0 ELSE Len(out)

\* A line fits its buffer.
LEMMA LineIs == \A s : s \in CmdLine <=> s \in Seq(Chars) /\ Len(s) <= LINE_MAX - 1
<1>1. CmdLine = UNION {[1 .. m -> Chars] : m \in 0 .. LINE_MAX - 1}
  BY DEF CmdLine, SeqOf
<1>2. LINE_MAX \in Nat
  BY ConsoleAssumption
<1>3. ASSUME NEW s, NEW m \in 0 .. LINE_MAX - 1, s \in [1 .. m -> Chars]
      PROVE  s \in Seq(Chars) /\ Len(s) <= LINE_MAX - 1
  <2>1. m \in Nat /\ m <= LINE_MAX - 1
    BY <1>2
  <2>2. s \in Seq(Chars) /\ Len(s) = m
    BY <1>3, <2>1
  <2>. QED
    BY <2>1, <2>2
<1>4. ASSUME NEW s \in Seq(Chars), Len(s) <= LINE_MAX - 1
      PROVE  \E m \in 0 .. LINE_MAX - 1 : s \in [1 .. m -> Chars]
  <2>1. Len(s) \in 0 .. LINE_MAX - 1 /\ s \in [1 .. Len(s) -> Chars]
    BY <1>2, <1>4
  <2>. QED
    BY <2>1
<1>. QED
  BY <1>1, <1>3, <1>4, Zenon

\* Room for one character and the terminator in any buffer.
LEMMA LimitIs ==
    call \in Calls => limit \in Nat /\ limit >= 1 /\ limit <= LINE_MAX - 1 /\ LINE_MAX \in Nat
<1>1. LINE_MAX \in Nat /\ SMALL \in 2 .. LINE_MAX
  BY ConsoleAssumption
<1>2. ASSUME call \in Calls PROVE call.size \in {LINE_MAX, SMALL}
  <2>1. CASE call = Shell
    BY <2>1 DEF Shell
  <2>2. CASE call \in [echo : Echoes, use_history : {FALSE}, size : {SMALL}]
    BY <2>2
  <2>. QED
    BY <1>2, <2>1, <2>2 DEF Calls
<1>. QED
  BY <1>1, <1>2 DEF limit

\* What the shown form of a line has in common with it.
LEMMA EchoedLen ==
    ASSUME call \in Calls, NEW s \in Seq(Chars)
    PROVE  Len(Echoed(s)) = IF call.echo = "hidden" THEN 0 ELSE Len(s)
<1>1. call.echo \in {"plain", "hidden", "stars"}
  <2>1. CASE call = Shell
    BY <2>1 DEF Shell
  <2>2. CASE call \in [echo : Echoes, use_history : {FALSE}, size : {SMALL}]
    BY <2>2, ConsoleAssumption
  <2>. QED
    BY <2>1, <2>2 DEF Calls
<1>2. CASE call.echo = "stars"
  <2>1. Echoed(s) = [i \in DOMAIN s |-> Star]
    BY <1>2 DEF Echoed
  <2>2. DOMAIN s = 1 .. Len(s) /\ Len(s) \in Nat
    OBVIOUS
  <2>. QED
    BY <1>2, <2>1, <2>2
<1>. QED
  BY <1>1, <1>2 DEF Echoed

\* A call begins.
LEMMA NextCallTyped ==
    ASSUME NEW ending, NEW outputs, NextCall(ending, outputs), history_total' \in 0 .. MaxLines,
           history' \in [0 .. HISTORY_MAX - 1 -> CmdLine]
    PROVE  EditorInv'
<1>1. call' \in Calls /\ out' = <<>> /\ drawn' = 0 /\ browse' = history_total' /\ lead' = Prompt
  BY DEF NextCall
<1>2. limit' \in Nat /\ limit' >= 1 /\ limit' <= LINE_MAX - 1 /\ LINE_MAX \in Nat
  <2>1. (call \in Calls => limit \in Nat /\ limit >= 1 /\ limit <= LINE_MAX - 1 /\ LINE_MAX \in Nat)'
    BY LimitIs, PTL
  <2>. QED
    BY <1>1, <2>1
<1>3. out' \in CmdLine /\ Len(out') = 0
  <2>1. <<>> \in Seq(Chars) /\ Len(<<>>) = 0 /\ 0 <= LINE_MAX - 1
    BY <1>2
  <2>2. <<>> \in CmdLine
    BY <2>1, LineIs, Zenon
  <2>. QED
    BY <1>1, <2>1, <2>2
<1>4. browse' \in 0 .. history_total'
  BY <1>1
<1>. QED
  BY <1>1, <1>2, <1>3, <1>4 DEF EditorInv, ConsoleTypeOK

\* What the history may give back.
LEMMA EntryIs ==
    ASSUME ConsoleTypeOK, NEW target \in Nat, console_history_at(target) # <<>>
    PROVE  target < history_total /\ console_history_at(target) \in CmdLine
<1>1. target < history_total /\ console_history_at(target) = history[target % HISTORY_MAX]
  BY DEF console_history_at, ConsoleTypeOK
<1>. QED
  BY <1>1, RingSlot DEF ConsoleTypeOK

\* The line is another one within the buffer, and drawn as long as it is.
LEMMA LineTyped ==
    ASSUME EditorInv, call' = call, UNCHANGED past, lead' \in {Prompt, <<>>},
           out' \in Seq(Chars), Len(out') <= limit,
           drawn' = IF call.echo = "hidden" THEN 0 ELSE Len(out'),
           browse' \in 0 .. history_total
    PROVE  EditorInv'
<1>1. limit \in Nat /\ limit <= LINE_MAX - 1 /\ LINE_MAX \in Nat /\ limit' = limit
  BY LimitIs DEF EditorInv, ConsoleTypeOK, limit
<1>2. out' \in CmdLine /\ Len(out') \in Nat
  BY <1>1, LineIs
<1>3. drawn' \in 0 .. LINE_MAX - 1
  BY <1>1, <1>2
<1>. QED
  BY <1>1, <1>2, <1>3 DEF EditorInv, ConsoleTypeOK, past

\* The keys, one by one.
LEMMA KeyTyped == ASSUME EditorInv, Key PROVE EditorInv'
<1>0. /\ call \in Calls /\ out \in CmdLine /\ out \in Seq(Chars) /\ Len(out) <= limit
      /\ Len(out) \in Nat
      /\ browse \in 0 .. history_total /\ history_total \in 0 .. MaxLines /\ MaxLines \in Nat
      /\ history \in [0 .. HISTORY_MAX - 1 -> CmdLine]
      /\ lead \in {Prompt, <<>>}
  BY LineIs, ConsoleAssumption DEF EditorInv, ConsoleTypeOK
<1>1. limit \in Nat /\ limit >= 1 /\ limit <= LINE_MAX - 1 /\ LINE_MAX \in Nat
  BY <1>0, LimitIs
<1>2. CASE Enter
  <2>1. history_total' \in 0 .. MaxLines /\ history' \in [0 .. HISTORY_MAX - 1 -> CmdLine]
    <3>1. CASE UNCHANGED past
      BY <1>0, <3>1 DEF past
    <3>2. CASE history_total < MaxLines /\ console_history_push(out)
      <4>1. CASE UNCHANGED past
        BY <1>0, <4>1 DEF past
      <4>2. CASE /\ history' = [history EXCEPT ![history_total % HISTORY_MAX] = out]
                 /\ history_total' = history_total + 1
        <5>1. history_total + 1 \in 0 .. MaxLines
          BY <1>0, <3>2
        <5>. QED
          BY <1>0, <4>2, <5>1
      <4>. QED
        BY <3>2, <4>1, <4>2 DEF console_history_push
    <3>. QED
      BY <1>2, <3>1, <3>2 DEF Enter
  <2>2. PICK ending, outputs : NextCall(ending, outputs)
    BY <1>2 DEF Enter
  <2>. QED
    BY <2>1, <2>2, NextCallTyped
<1>3. CASE CtrlC
  <2>1. UNCHANGED past
    BY <1>3 DEF CtrlC
  <2>2. PICK ending, outputs : NextCall(ending, outputs)
    BY <1>3 DEF CtrlC
  <2>. QED
    BY <1>0, <2>1, <2>2, NextCallTyped DEF past
<1>4. CASE Backspace
  <2>1. out # <<>> /\ out' = SubSeq(out, 1, Len(out) - 1) /\ UNCHANGED <<call, browse, past, lead>>
    BY <1>4 DEF Backspace, Front
  <2>2. Len(out) >= 1
    BY <1>0, <2>1, EmptySeq
  <2>3. out' \in Seq(Chars) /\ Len(out') = Len(out) - 1
    <3> DEFINE m == Len(out) - 1
    <3>1. m \in 0 .. Len(out)
      BY <1>0, <2>2
    <3> HIDE DEF m
    <3>2. SubSeq(out, 1, m) \in Seq(Chars) /\ Len(SubSeq(out, 1, m)) = m
      BY <1>0, <3>1
    <3>. QED
      BY <2>1, <3>2 DEF m
  <2>4. drawn' = IF call.echo = "hidden" THEN 0 ELSE Len(out')
    BY <1>4, <2>3 DEF Backspace, EditorInv
  <2>. QED
    BY <1>0, <1>1, <2>1, <2>3, <2>4, LineTyped
<1>5. CASE CtrlL
  <2>1. UNCHANGED <<call, out, browse, past>> /\ lead' \in {Prompt, <<>>}
    BY <1>5 DEF CtrlL
  <2>2. drawn' = IF call.echo = "hidden" THEN 0 ELSE Len(out)
    BY <1>0, <1>5, EchoedLen DEF CtrlL
  <2>. QED
    BY <1>0, <2>1, <2>2, LineTyped
<1>6. CASE CtrlU
  <2>1. UNCHANGED <<call, browse, past, lead>> /\ out' = <<>>
    BY <1>6 DEF CtrlU
  <2>2. drawn' = 0
    BY <1>6 DEF CtrlU, redraw
  <2>. QED
    BY <1>0, <1>1, <2>1, <2>2, LineTyped
<1>7. CASE Scroll
  BY <1>7 DEF Scroll, editor, past, EditorInv, ConsoleTypeOK, limit
<1>8. ASSUME NEW target \in Int, Browse(target) PROVE EditorInv'
  <2>1. /\ call' = call /\ UNCHANGED <<past, lead>> /\ target \in Nat
        /\ drawn' = IF call.echo = "hidden" THEN 0 ELSE Len(out')
    BY <1>8 DEF Browse, redraw
  <2>2. CASE target >= history_total /\ browse' = history_total /\ out' = <<>>
    <3>1. out' \in Seq(Chars) /\ Len(out') <= limit /\ browse' \in 0 .. history_total
      BY <1>0, <1>1, <2>2
    <3>. QED
      BY <1>0, <2>1, <3>1, LineTyped
  <2>3. CASE /\ console_history_at(target) # <<>>
             /\ browse' = target
             /\ LET entry == console_history_at(target)
                IN  out' = SubSeq(entry, 1, Min({limit, Len(entry)}))
    <3> DEFINE entry == console_history_at(target)
               m == Min({limit, Len(entry)})
    <3>1. target < history_total /\ entry \in CmdLine
      BY <2>1, <2>3, EntryIs DEF EditorInv
    <3>2. out' = SubSeq(entry, 1, m)
      BY <2>3
    <3> HIDE DEF entry
    <3>3. entry \in Seq(Chars) /\ Len(entry) \in Nat
      BY <3>1, LineIs
    <3>4. m = IF limit <= Len(entry) THEN limit ELSE Len(entry)
      BY <1>1, <3>3, TwoNumbers
    <3>5. m \in 0 .. Len(entry) /\ m <= limit
      BY <1>1, <3>3, <3>4
    <3> HIDE DEF m
    <3>6. out' \in Seq(Chars) /\ Len(out') = m
      BY <3>2, <3>3, <3>5
    <3>7. browse' \in 0 .. history_total
      BY <1>0, <2>1, <2>3, <3>1
    <3>. QED
      BY <1>0, <2>1, <3>5, <3>6, <3>7, LineTyped
  <2>. QED
    BY <1>8, <2>2, <2>3 DEF Browse
<1>9. ASSUME NEW c \in Chars, Type(c) PROVE EditorInv'
  <2>1. out' = Append(out, c) /\ UNCHANGED <<call, browse, past, lead>> /\ Len(out) < limit
    BY <1>9 DEF Type
  <2>2. out' \in Seq(Chars) /\ Len(out') = Len(out) + 1
    BY <1>0, <2>1
  <2>3. drawn' = IF call.echo = "hidden" THEN 0 ELSE Len(out')
    BY <1>9, <2>2 DEF Type, EditorInv
  <2>. QED
    BY <1>0, <1>1, <2>1, <2>2, <2>3, LineTyped
<1>10. browse - 1 \in Int /\ browse + 1 \in Int
  BY <1>0
<1>. QED
  BY <1>2, <1>3, <1>4, <1>5, <1>6, <1>7, <1>8, <1>9, <1>10 DEF Key

\* The mouse's own variables.
LEMMA MouseTyped ==
    MouseInv /\ MouseTypeOK /\ [Next]_vars => MouseTypeOK'
<1> SUFFICES ASSUME MouseInv, MouseTypeOK, [Next]_vars PROVE MouseTypeOK'
  OBVIOUS
<1>0. MaxLost \in Nat
  BY MouseAssumption
<1>1. CASE MouseByte
  <2>1. MouseInv'
    BY <1>1, ByteKeeps
  <2>2. PICK byte \in 0 .. 15 : step' = Heard(byte)
    BY <1>1 DEF MouseByte
  <2>3. step' \in {"in", "quiet", "out"}
    BY <2>2 DEF Heard
  <2>. QED
    BY <1>1, <2>1, <2>3 DEF MouseByte, MouseInv, MouseTypeOK
<1>2. CASE LoseByte
  <2>1. MouseInv'
    BY <1>2, LossKeeps
  <2>. QED
    BY <1>0, <1>2, <2>1 DEF LoseByte, MouseInv, MouseTypeOK
<1>3. CASE UNCHANGED mouse
  BY <1>3 DEF mouse, MouseTypeOK
<1>. QED
  BY <1>1, <1>2, <1>3 DEF Next, Session, vars

\* The session begins with an empty line.
LEMMA EditorInvInit == ASSUME ConsoleInit PROVE EditorInv
<1>1. call \in Calls /\ out = <<>> /\ drawn = 0 /\ history_total = 0 /\ browse = 0 /\ lead = Prompt
  BY DEF ConsoleInit
<1>2. limit \in Nat /\ limit >= 1 /\ limit <= LINE_MAX - 1 /\ LINE_MAX \in Nat
  BY <1>1, LimitIs
<1>3. <<>> \in CmdLine
  <2>1. <<>> \in Seq(Chars) /\ Len(<<>>) <= LINE_MAX - 1
    BY <1>2
  <2>. QED
    BY <2>1, LineIs, Zenon
<1>4. history \in [0 .. HISTORY_MAX - 1 -> CmdLine] /\ history_total \in 0 .. MaxLines
  BY <1>1, <1>3, ConsoleAssumption DEF ConsoleInit
<1>. QED
  BY <1>1, <1>2, <1>3, <1>4 DEF EditorInv, ConsoleTypeOK

\* Only a key changes the line.
LEMMA EditorKept == ASSUME EditorInv, [Next]_vars PROVE EditorInv'
<1>1. CASE UNCHANGED editor
  BY <1>1 DEF editor, past, EditorInv, ConsoleTypeOK, limit
<1>. QED
  BY <1>1, KeyTyped DEF Next, Session, Write, Paint, console, vars

\* The terminal's variables stay in range: no line outgrows the buffer of its
\* call, no index its ring, and the cursor never leaves the screen
\* (console.c:64-171, vga.c:17-25, mouse.c:19-21).
THEOREM TypeCorrect == Spec => []TypeOK
<1> DEFINE Inv == VgaInv /\ EditorInv /\ MouseInv /\ MouseTypeOK
<1>1. Init => Inv
  <2> SUFFICES ASSUME Init PROVE Inv
    OBVIOUS
  <2>1. MouseInv /\ MouseTypeOK
    BY MouseAssumption DEF Init, MouseInit, MouseInv, MouseTypeOK, Resynchronises
  <2>2. EditorInv
    BY EditorInvInit DEF Init
  <2>. QED
    BY <2>1, <2>2, VgaInvInit DEF Init
<1>2. ASSUME Inv, [Next]_vars PROVE Inv'
  <2>1. VgaInv' /\ MouseTypeOK'
    BY <1>2, VgaInvKept, MouseTyped
  <2>2. MouseInv'
    <3>1. CASE UNCHANGED mouse
      BY <1>2, <3>1 DEF mouse, MouseInv, Resynchronises
    <3>. QED
      BY <1>2, <3>1, ByteKeeps, LossKeeps DEF Next, Session, vars
  <2>3. EditorInv'
    BY <1>2, EditorKept
  <2>. QED
    BY <2>1, <2>2, <2>3
<1>3. Inv => TypeOK
  BY DEF VgaInv, EditorInv, TypeOK
<1>. QED
  BY <1>1, <1>2, <1>3, PTL DEF Spec
-----------------------------------------------------------------------------
(* What is scrolled back to.                                               *)

\* The last lines of all, as a piece of them.
LEMMA LastLines ==
    ASSUME NEW b \in Backs, NEW all \in Seq(Line), KeepsLast(b, all, Len(all))
    PROVE  Lines(b) = SubSeq(all, Max({1, Len(all) - SCROLLBACK_LINES + 1}), Len(all))
<1> DEFINE n == Len(all)
           k == b.count
           m == SCROLLBACK_LINES
           from == Max({1, n - m + 1})
<1>1. n \in Nat /\ m \in Nat /\ m >= 1 /\ k = IF n <= m THEN n ELSE m
  BY Sizes DEF KeepsLast
<1>2. \A i \in 0 .. k - 1 : scrollback_line(b, i) = all[n - k + i + 1]
  BY DEF KeepsLast
<1>3. Lines(b) = [i \in 1 .. k |-> scrollback_line(b, i - 1)]
  BY DEF Lines
<1> HIDE DEF n, k, m
<1>4. from = n - k + 1
  <2> DEFINE x == n - m + 1
  <2>1. 1 \in Int /\ x \in Int
    BY <1>1
  <2> HIDE DEF x
  <2>2. Max({1, x}) = IF 1 <= x THEN x ELSE 1
    BY <2>1, TwoNumbers
  <2>. QED
    BY <1>1, <2>2 DEF x
<1> HIDE DEF from
<1>5. from \in 1 .. n + 1 /\ from \in Int /\ n - from + 1 = k
  BY <1>1, <1>4
<1>6. SubSeq(all, from, n) = [i \in 1 .. k |-> all[i + from - 1]]
  BY <1>1, <1>5 DEF n
<1>7. ASSUME NEW i \in 1 .. k PROVE scrollback_line(b, i - 1) = all[i + from - 1]
  <2> DEFINE j == i - 1
  <2>1. j \in 0 .. k - 1 /\ n - k + j + 1 = i + from - 1
    BY <1>1, <1>4
  <2> HIDE DEF j
  <2>2. scrollback_line(b, j) = all[n - k + j + 1]
    BY <1>2, <2>1
  <2>. QED
    BY <2>1, <2>2 DEF j
<1>8. Lines(b) = [i \in 1 .. k |-> all[i + from - 1]]
  BY <1>3, <1>7
<1>. QED
  BY <1>6, <1>8 DEF from, n, m

\* A step of LinesKept.
LineStep ==
    LET left == IF cursor' = <<0, 0>> THEN Written(screen) ELSE <<screen[0]>>
        all == Kept \o left
    IN  Kept' = SubSeq(all, Max({1, Len(all) - SCROLLBACK_LINES + 1}), Len(all))

\* The screen moves up by a line.
LEMMA ScrollArchives ==
    ASSUME VgaInv, NEW c \in Out, vga_putc(c), back' # back
    PROVE  LineStep
<1>1. screen \in [Rows -> Line] /\ back \in Backs /\ cursor \in Rows \X Cols
  BY DEF VgaInv, VgaTypeOK, Backs
<1>2. ~ (Moved(c)[1] < VGA_HEIGHT)
  BY DEF vga_putc
<1>3. back' = push_scrollback(back, Marked(screen, c)[0]) /\ cursor' = <<VGA_HEIGHT - 1, Moved(c)[2]>>
  BY <1>2 DEF vga_putc
<1>4. cursor[1] = VGA_HEIGHT - 1 /\ c # "backspace" /\ VGA_HEIGHT - 1 >= 1
  BY <1>1, <1>2, MovedIs, Sizes DEF CursorMoves
<1>5. Marked(screen, c)[0] = screen[0]
  <2>1. CASE c = "newline"
    BY <2>1 DEF Marked
  <2>2. CASE c # "newline"
    <3>1. Marked(screen, c) = [screen EXCEPT ![cursor[1]][cursor[2]] = c]
      BY <1>4, <2>2 DEF Marked
    <3>2. 0 \in Rows /\ cursor[1] # 0
      BY <1>4, Sizes
    <3>. QED
      BY <1>1, <3>1, <3>2
  <2>. QED
    BY <2>1, <2>2
<1>6. cursor' # <<0, 0>>
  BY <1>3, <1>4
<1> DEFINE l == screen[0]
           all == Lines(back) \o <<l>>
           n == back.count
<1>7. l \in Line
  BY <1>1, Sizes
<1>8. <<l>> \in Seq(Line) /\ Len(<<l>>) = 1 /\ <<l>>[1] = l
  BY <1>7
<1> HIDE DEF l, all
<1>9. LinesThen(back, <<l>>, all)
  BY <1>1, <1>8, LinesAre DEF all
<1>10. /\ n \in Nat /\ all \in Seq(Line) /\ Len(all) = n + 1
       /\ KeepsLast(back, all, n) /\ all[n + 1] = l
  BY <1>8, <1>9 DEF LinesThen, Follow
<1>11. back' = push_scrollback(back, all[n + 1])
  BY <1>3, <1>5, <1>10 DEF l
<1>12. back' \in Backs
  BY <1>1, <1>7, <1>10, <1>11, PushIs DEF Pushed
<1> HIDE DEF n
<1>13. KeepsLast(back', all, Len(all))
  <2>1. KeepsLast(back, all, n) /\ all[n + 1] \in Line
    BY <1>7, <1>10
  <2>2. KeepsLast(back', all, n + 1)
    BY <1>1, <1>10, <1>11, <2>1, PushKeepsLast
  <2>. QED
    BY <1>10, <2>2
<1>14. Lines(back') = SubSeq(all, Max({1, Len(all) - SCROLLBACK_LINES + 1}), Len(all))
  BY <1>10, <1>12, <1>13, LastLines
<1>15. Kept' = Lines(back') /\ Kept = Lines(back)
  BY Zenon DEF Kept, Lines, scrollback_line
<1>. QED
  BY <1>6, <1>14, <1>15, Zenon DEF LineStep, all, l

\* The screen is cleared.
LEMMA ClearArchives == ASSUME VgaInv, vga_clear PROVE LineStep
<1> DEFINE all == Lines(back) \o Written(screen)
<1>1. screen \in [Rows -> Line] /\ back \in Backs
  BY DEF VgaInv, VgaTypeOK, Backs
<1>2. back' = archive_screen(back, screen) /\ cursor' = <<0, 0>>
  BY DEF vga_clear
<1>3. back' \in Backs /\ KeepsLast(back', all, Len(all)) /\ all \in Seq(Line)
  BY <1>1, <1>2, ArchiveIs
<1> HIDE DEF all
<1>4. Lines(back') = SubSeq(all, Max({1, Len(all) - SCROLLBACK_LINES + 1}), Len(all))
  BY <1>3, LastLines
<1>5. Kept' = Lines(back') /\ Kept = Lines(back)
  BY Zenon DEF Kept, Lines, scrollback_line
<1>. QED
  BY <1>2, <1>4, <1>5, Zenon DEF LineStep, all

\* For a ring of any length, the lines scrolled back to are the last ones that
\* left the screen, in order, whether it moved up or was cleared
\* (vga.c:72-121; README.md:232-233).
THEOREM ScrollbackKept == Spec => LinesKept
<1>1. ASSUME VgaInv, [Next]_vars, back' # back PROVE LineStep
  <2>1. CASE UNCHANGED vga
    BY <1>1, <2>1 DEF vga
  <2>2. CASE Write
    <3>1. \/ \E c \in Out : vga_putc(c)
          \/ vga_clear
          \/ \E target : ScrollInSession(target)
      BY <2>2, Zenon DEF Write, Out
    <3>. QED
      BY <1>1, <3>1, ScrollArchives, ClearArchives DEF ScrollInSession
  <2>3. CASE Paint
    BY <1>1, <2>3 DEF Paint, PaintLine, PaintCursor
  <2>4. CASE MouseByte
    BY <1>1, <2>4 DEF MouseByte, mouse_callback, ScrollInHandler, vga
  <2>. QED
    BY <1>1, <2>1, <2>2, <2>3, <2>4 DEF Next, Session, Key, LoseByte, vars
<1>2. VgaInv /\ [Next]_vars => [LineStep]_back
  BY <1>1
<1>. QED
  BY <1>2, VgaInvInit, VgaInvKept, PTL DEF Spec, Init, LinesKept, LineStep
-----------------------------------------------------------------------------
(* The line on the screen.                                                 *)

Places == VGA_WIDTH * VGA_HEIGHT
Here == cursor[1] * VGA_WIDTH + cursor[2]
Shown == lead \o Echoed(out)
Erasing(k) == [i \in 1 .. k |-> "backspace"]
Scrolls == {"bottom", "pageup", "pagedown", "up", "down"}
Call == Out \union Scrolls \union {"clear"}

\* A line and its prompt leave a row over.
Roomy == Len(Prompt) + LINE_MAX <= VGA_WIDTH * (VGA_HEIGHT - 1)
AtEdge(place) == Roomy \/ \E row \in Rows : place = row * VGA_WIDTH

\* Of the n characters before the cursor the first m are to stay: they are the
\* start of what is to be shown.
Standing(n, m) ==
    /\ n \in 0 .. Here /\ m \in 0 .. n /\ m <= Len(Shown)
    /\ AtEdge(Here - n)
    /\ \A i \in 1 .. m : Cell(Here - n + i - 1) = Shown[i]

\* The others are still to be erased, and the rest is still to be written.
Remaining(n, m) == Erasing(n - m) \o SubSeq(Shown, m + 1, Len(Shown))

\* The session edits the line, it scrolls first, or something else is written
\* that ends where the line may begin.
Editing(calls) ==
    \E n \in 0 .. Here, m \in 0 .. Here : Standing(n, m) /\ calls = Remaining(n, m)
Scrolling == agenda # <<>> /\ Head(agenda) \in Scrolls /\ Editing(Tail(agenda))
Printing == \E m \in 1 .. Len(agenda) :
    /\ Roomy \/ agenda[m] \in {"newline", "clear"}
    /\ SubSeq(agenda, m + 1, Len(agenda)) = Shown

BlankBehind == \A place \in Here .. Places - 1 : Cell(place) = " "

TextInv == agenda \in Seq(Call) /\ BlankBehind /\ (Editing(agenda) \/ Scrolling \/ Printing)

\* Rows and columns as places.
LEMMA RowProduct ==
    ASSUME NEW row \in Int
    PROVE  row * VGA_WIDTH \in Int /\ (row + 1) * VGA_WIDTH = row * VGA_WIDTH + VGA_WIDTH
BY Sizes

\* The rows follow one another.
LEMMA RowOrder ==
    ASSUME NEW r \in Int, NEW s \in Int, r < s
    PROVE  r * VGA_WIDTH + VGA_WIDTH <= s * VGA_WIDTH
<1>1. VGA_WIDTH \in Nat
  BY Sizes
<1>2. (s - r - 1) * VGA_WIDTH >= 0
  BY <1>1
<1>3. (s - r - 1) * VGA_WIDTH = s * VGA_WIDTH - r * VGA_WIDTH - VGA_WIDTH
  BY <1>1
<1>4. s * VGA_WIDTH \in Int /\ r * VGA_WIDTH \in Int
  BY <1>1
<1>. QED
  BY <1>1, <1>2, <1>3, <1>4

InPlace(place, row, col) ==
    /\ row \in Rows /\ col \in Cols /\ place = row * VGA_WIDTH + col
    /\ Cell(place) = screen[row][col]

\* Where a place is, and what stands there.
LEMMA PlaceIs ==
    ASSUME NEW row \in Rows, NEW col \in Cols
    PROVE  /\ row * VGA_WIDTH + col \in 0 .. Places - 1
           /\ InPlace(row * VGA_WIDTH + col, row, col)
<1> DEFINE place == row * VGA_WIDTH + col
           q == place \div VGA_WIDTH
           m == place % VGA_WIDTH
<1>1. /\ VGA_WIDTH \in Nat /\ VGA_WIDTH >= 1 /\ VGA_HEIGHT \in Nat
      /\ row \in 0 .. VGA_HEIGHT - 1 /\ col \in 0 .. VGA_WIDTH - 1
  BY Sizes DEF Rows, Cols
<1>2. row * VGA_WIDTH \in Nat
  BY <1>1
<1>3. place \in Nat
  BY <1>1, <1>2
<1> HIDE DEF place
<1>4. q \in Int /\ m \in 0 .. VGA_WIDTH - 1 /\ place = VGA_WIDTH * q + m
  BY <1>1, <1>3
<1> HIDE DEF q, m
<1>5. q * VGA_WIDTH \in Int /\ VGA_WIDTH * q = q * VGA_WIDTH
  BY <1>1, <1>4
<1>6. q = row
  <2>1. CASE q < row
    <3>1. q * VGA_WIDTH + VGA_WIDTH <= row * VGA_WIDTH
      BY <1>1, <1>4, <2>1, RowOrder
    <3>. QED
      BY <1>1, <1>2, <1>4, <1>5, <3>1 DEF place
  <2>2. CASE row < q
    <3>1. row * VGA_WIDTH + VGA_WIDTH <= q * VGA_WIDTH
      BY <1>1, <1>4, <2>2, RowOrder
    <3>. QED
      BY <1>1, <1>2, <1>4, <1>5, <3>1 DEF place
  <2>. QED
    BY <1>1, <1>4, <2>1, <2>2
<1>7. m = col
  BY <1>1, <1>2, <1>4, <1>5, <1>6 DEF place
<1>8. place <= Places - 1
  <2>1. row * VGA_WIDTH + VGA_WIDTH <= VGA_HEIGHT * VGA_WIDTH
    BY <1>1, RowOrder
  <2>2. VGA_HEIGHT * VGA_WIDTH = Places /\ Places \in Int
    BY <1>1 DEF Places
  <2>. QED
    BY <1>1, <1>2, <2>1, <2>2 DEF place
<1>9. Cell(place) = screen[row][col]
  BY <1>6, <1>7, Zenon DEF Cell, q, m
<1>10. place \in 0 .. Places - 1
  BY <1>1, <1>3, <1>8 DEF Places
<1>. QED
  BY <1>9, <1>10 DEF InPlace, place

\* Every place is somewhere.
LEMMA PlaceFound ==
    ASSUME NEW place \in 0 .. Places - 1
    PROVE  \E row \in Rows, col \in Cols : InPlace(place, row, col)
<1> DEFINE q == place \div VGA_WIDTH
           m == place % VGA_WIDTH
<1>1. /\ VGA_WIDTH \in Nat /\ VGA_WIDTH >= 1 /\ VGA_HEIGHT \in Nat /\ VGA_HEIGHT >= 2
      /\ Places = VGA_HEIGHT * VGA_WIDTH /\ Places \in Int
  BY Sizes DEF Places
<1>2. place \in Nat /\ place < Places
  BY <1>1
<1>3. q \in Int /\ m \in 0 .. VGA_WIDTH - 1 /\ place = VGA_WIDTH * q + m
  BY <1>1, <1>2
<1> HIDE DEF q, m
<1>4. q * VGA_WIDTH \in Int /\ VGA_WIDTH * q = q * VGA_WIDTH
  BY <1>1, <1>3
<1>5. q >= 0
  <2>1. CASE q < 0
    <3>1. q * VGA_WIDTH + VGA_WIDTH <= 0 * VGA_WIDTH
      BY <1>3, <2>1, RowOrder
    <3>2. 0 * VGA_WIDTH = 0
      BY <1>1
    <3>. QED
      BY <1>1, <1>2, <1>3, <1>4, <3>1, <3>2
  <2>. QED
    BY <1>3, <2>1
<1>6. q <= VGA_HEIGHT - 1
  <2>1. CASE VGA_HEIGHT <= q
    <3>1. VGA_HEIGHT * VGA_WIDTH <= q * VGA_WIDTH
      <4>1. CASE VGA_HEIGHT = q
        BY <1>4, <4>1
      <4>2. CASE VGA_HEIGHT < q
        <5>1. VGA_HEIGHT * VGA_WIDTH + VGA_WIDTH <= q * VGA_WIDTH
          BY <1>1, <1>3, <4>2, RowOrder
        <5>. QED
          BY <1>1, <1>4, <5>1
      <4>. QED
        BY <1>1, <1>3, <2>1, <4>1, <4>2
    <3>. QED
      BY <1>1, <1>2, <1>3, <1>4, <3>1
  <2>. QED
    BY <1>1, <1>3, <2>1
<1>7. q \in Rows /\ m \in Cols
  BY <1>1, <1>3, <1>5, <1>6 DEF Rows, Cols
<1>8. place = q * VGA_WIDTH + m
  BY <1>1, <1>3, <1>4
<1>9. Cell(place) = screen[q][m]
  BY Zenon DEF Cell, q, m
<1>. QED
  BY <1>7, <1>8, <1>9 DEF InPlace

\* What stands at a place, by row and column, now and after a step.
LEMMA PlaceCell == \A row \in Rows, col \in Cols : Cell(row * VGA_WIDTH + col) = screen[row][col]
BY PlaceIs DEF InPlace

\* The same after a step.
LEMMA PlaceCellThen ==
    \A row \in Rows, col \in Cols : Cell(row * VGA_WIDTH + col)' = screen'[row][col]
<1>1. (\A row \in Rows, col \in Cols : Cell(row * VGA_WIDTH + col) = screen[row][col])'
  BY PlaceCell, PTL
<1>. QED
  BY <1>1

\* The cursor is at a place.
LEMMA HereIs ==
    ASSUME cursor \in Rows \X Cols
    PROVE  /\ Here \in 0 .. Places - 1 /\ Here \in Nat /\ Places \in Nat
           /\ Here = cursor[1] * VGA_WIDTH + cursor[2]
<1>1. PICK row \in Rows, col \in Cols : cursor = <<row, col>>
  OBVIOUS
<1>2. Here = row * VGA_WIDTH + col
  BY <1>1 DEF Here
<1>3. Here \in 0 .. Places - 1
  BY <1>2, PlaceIs
<1>4. Places \in Nat
  BY Sizes DEF Places
<1>. QED
  BY <1>3, <1>4 DEF Here

\* A character at the cursor, the screen moved up by d places behind it.
Typed(c, d) ==
    /\ Here' = Here + 1 - d
    /\ \A place \in 0 .. Places - 1 :
        Cell(place)' = IF place + d >= Places THEN " "
                       ELSE IF place + d = Here THEN c ELSE Cell(place + d)

\* In the last cell the screen moves up by a row, elsewhere it stays.
LEMMA GlyphCells ==
    ASSUME VgaTypeOK, NEW c \in Glyphs, vga_putc(c)
    PROVE  IF Here + 1 = Places THEN Typed(c, VGA_WIDTH) ELSE Typed(c, 0)
<1>1. screen \in [Rows -> Line] /\ cursor \in Rows \X Cols
  BY DEF VgaTypeOK
<1>2. PICK row \in Rows, col \in Cols : cursor = <<row, col>>
  BY <1>1
<1>3. /\ cursor[1] = row /\ cursor[2] = col
      /\ row \in 0 .. VGA_HEIGHT - 1 /\ col \in 0 .. VGA_WIDTH - 1
      /\ VGA_WIDTH \in Nat /\ VGA_WIDTH >= 1 /\ VGA_HEIGHT \in Nat /\ VGA_HEIGHT >= 2
  BY <1>2, Sizes DEF Rows, Cols
<1>4. c # "newline" /\ c # "backspace"
  BY GlyphFacts
<1>5. Marked(screen, c) = [screen EXCEPT ![row][col] = c]
  BY <1>3, <1>4 DEF Marked
<1>6. Moved(c) = IF col + 1 = VGA_WIDTH THEN <<row + 1, 0>> ELSE <<row, col + 1>>
  BY <1>3, <1>4 DEF Moved
<1>7. /\ row * VGA_WIDTH \in Int /\ (row + 1) * VGA_WIDTH = row * VGA_WIDTH + VGA_WIDTH
      /\ Here = row * VGA_WIDTH + col /\ Here \in Nat
      /\ Places \in Nat
  BY <1>1, <1>3, RowProduct, HereIs
<1>8. /\ (VGA_HEIGHT - 1) * VGA_WIDTH \in Int
      /\ Places = (VGA_HEIGHT - 1) * VGA_WIDTH + VGA_WIDTH
  <2>1. VGA_HEIGHT - 1 \in Int /\ (VGA_HEIGHT - 1) + 1 = VGA_HEIGHT
    BY <1>3
  <2>2. /\ (VGA_HEIGHT - 1) * VGA_WIDTH \in Int
        /\ ((VGA_HEIGHT - 1) + 1) * VGA_WIDTH = (VGA_HEIGHT - 1) * VGA_WIDTH + VGA_WIDTH
    BY <2>1, RowProduct, Zenon
  <2>3. Places = VGA_HEIGHT * VGA_WIDTH
    BY <1>3 DEF Places
  <2>. QED
    BY <2>1, <2>2, <2>3
<1>9. ASSUME NEW r \in Rows, NEW k \in Cols
      PROVE  /\ Marked(screen, c)[r][k] = IF r = row /\ k = col THEN c ELSE screen[r][k]
             /\ (r * VGA_WIDTH + k = Here) <=> (r = row /\ k = col)
  <2>1. Marked(screen, c)[r][k] = IF r = row /\ k = col THEN c ELSE screen[r][k]
    <3>1. screen[row] \in [Cols -> Glyphs \union {" "}]
      BY <1>1 DEF Line
    <3>2. Marked(screen, c)[r] = IF r = row THEN [screen[row] EXCEPT ![col] = c] ELSE screen[r]
      BY <1>1, <1>5
    <3>3. [screen[row] EXCEPT ![col] = c][k] = IF k = col THEN c ELSE screen[row][k]
      BY <3>1
    <3>. QED
      BY <3>2, <3>3
  <2>2. r \in Int /\ k \in 0 .. VGA_WIDTH - 1 /\ r * VGA_WIDTH \in Int
    BY <1>3, RowProduct DEF Rows, Cols
  <2>3. r < row => r * VGA_WIDTH + VGA_WIDTH <= row * VGA_WIDTH
    BY <1>3, <2>2, RowOrder
  <2>4. row < r => row * VGA_WIDTH + VGA_WIDTH <= r * VGA_WIDTH
    BY <1>3, <2>2, RowOrder
  <2>5. (r * VGA_WIDTH + k = Here) => r = row
    BY <1>3, <1>7, <2>2, <2>3, <2>4
  <2>6. (r * VGA_WIDTH + k = Here) => k = col
    BY <1>3, <1>7, <2>2, <2>5
  <2>. QED
    BY <1>7, <2>1, <2>5, <2>6
<1>10. CASE Here + 1 # Places
  <2>1. Moved(c)[1] < VGA_HEIGHT
    <3>1. CASE col + 1 = VGA_WIDTH /\ row = VGA_HEIGHT - 1
      BY <1>3, <1>7, <1>8, <1>10, <3>1
    <3>. QED
      BY <1>3, <1>6, <3>1
  <2>2. screen' = Marked(screen, c) /\ cursor' = Moved(c)
    BY <2>1 DEF vga_putc
  <2>3. Here' = Here + 1 - 0
    <3>1. CASE col + 1 = VGA_WIDTH
      <4>1. Here' = (row + 1) * VGA_WIDTH + 0
        BY <1>6, <2>2, <3>1 DEF Here
      <4>. QED
        BY <1>3, <1>7, <3>1, <4>1
    <3>2. CASE col + 1 # VGA_WIDTH
      <4>1. Here' = row * VGA_WIDTH + (col + 1)
        BY <1>6, <2>2, <3>2 DEF Here
      <4>. QED
        BY <1>3, <1>7, <4>1
    <3>. QED
      BY <3>1, <3>2
  <2>4. ASSUME NEW place \in 0 .. Places - 1
        PROVE  Cell(place)' = IF place = Here THEN c ELSE Cell(place)
    <3>1. PICK r \in Rows, k \in Cols : InPlace(place, r, k)
      BY PlaceFound
    <3>2. place = r * VGA_WIDTH + k /\ Cell(place) = screen[r][k]
      BY <3>1 DEF InPlace
    <3>3. Cell(place)' = screen'[r][k]
      BY <3>2, PlaceCellThen
    <3>. QED
      BY <1>9, <2>2, <3>2, <3>3
  <2>5. \A place \in 0 .. Places - 1 : place + 0 = place /\ ~ (place >= Places)
    BY <1>7
  <2>. QED
    BY <1>10, <2>3, <2>4, <2>5 DEF Typed
<1>11. CASE Here + 1 = Places
  <2>1. row = VGA_HEIGHT - 1 /\ col + 1 = VGA_WIDTH
    <3>1. row < VGA_HEIGHT - 1 => row * VGA_WIDTH + VGA_WIDTH <= (VGA_HEIGHT - 1) * VGA_WIDTH
      BY <1>3, RowOrder
    <3>2. ~ (row < VGA_HEIGHT - 1)
      BY <1>3, <1>7, <1>8, <1>11, <3>1
    <3>3. row = VGA_HEIGHT - 1
      BY <1>3, <3>2
    <3>. QED
      BY <1>3, <1>7, <1>8, <1>11, <3>3
  <2>2. Moved(c) = <<VGA_HEIGHT, 0>> /\ ~ (Moved(c)[1] < VGA_HEIGHT)
    BY <1>3, <1>6, <2>1
  <2>3. /\ screen' = [r \in Rows |-> IF r = VGA_HEIGHT - 1 THEN BlankLine
                                     ELSE Marked(screen, c)[r + 1]]
        /\ cursor' = <<VGA_HEIGHT - 1, 0>>
    BY <2>2 DEF vga_putc
  <2>4. Here' = Here + 1 - VGA_WIDTH
    <3>1. Here' = (VGA_HEIGHT - 1) * VGA_WIDTH + 0
      BY <2>3 DEF Here
    <3>. QED
      BY <1>3, <1>7, <1>8, <1>11, <3>1
  <2>5. ASSUME NEW place \in 0 .. Places - 1
        PROVE  Cell(place)' = IF place + VGA_WIDTH >= Places THEN " "
                              ELSE IF place + VGA_WIDTH = Here THEN c ELSE Cell(place + VGA_WIDTH)
    <3>1. PICK r \in Rows, k \in Cols : InPlace(place, r, k)
      BY PlaceFound
    <3>2. place = r * VGA_WIDTH + k
      BY <3>1 DEF InPlace
    <3>3. Cell(place)' = screen'[r][k]
      BY <3>2, PlaceCellThen
    <3>4. /\ r \in 0 .. VGA_HEIGHT - 1 /\ k \in 0 .. VGA_WIDTH - 1 /\ r * VGA_WIDTH \in Int
          /\ (r + 1) * VGA_WIDTH = r * VGA_WIDTH + VGA_WIDTH
      BY RowProduct DEF Rows, Cols
    <3>5. CASE r = VGA_HEIGHT - 1
      <4>1. place + VGA_WIDTH >= Places
        BY <1>3, <1>8, <3>2, <3>4, <3>5
      <4>2. screen'[r][k] = " "
        BY <2>3, <3>5 DEF BlankLine
      <4>. QED
        BY <3>3, <4>1, <4>2
    <3>6. CASE r # VGA_HEIGHT - 1
      <4>1. r + 1 \in Rows /\ r < VGA_HEIGHT - 1
        BY <1>3, <3>4, <3>6 DEF Rows
      <4>2. r * VGA_WIDTH + VGA_WIDTH <= (VGA_HEIGHT - 1) * VGA_WIDTH
        BY <1>3, <3>4, <4>1, RowOrder
      <4>3. ~ (place + VGA_WIDTH >= Places)
        BY <1>3, <1>8, <3>2, <3>4, <4>2
      <4>4. place + VGA_WIDTH = (r + 1) * VGA_WIDTH + k
        BY <1>3, <3>2, <3>4
      <4>5. Cell(place + VGA_WIDTH) = screen[r + 1][k]
        BY <4>1, <4>4, PlaceCell
      <4>6. screen'[r][k] = Marked(screen, c)[r + 1][k]
        BY <2>3, <3>6
      <4>7. /\ Marked(screen, c)[r + 1][k] = IF r + 1 = row /\ k = col THEN c ELSE screen[r + 1][k]
            /\ ((r + 1) * VGA_WIDTH + k = Here) <=> (r + 1 = row /\ k = col)
        BY <1>9, <4>1
      <4>. QED
        BY <3>3, <4>3, <4>4, <4>5, <4>6, <4>7
    <3>. QED
      BY <3>5, <3>6
  <2>. QED
    BY <1>11, <2>4, <2>5 DEF Typed
<1>. QED
  BY <1>10, <1>11

\* The place before the cursor made blank, if there is one.
Rubbed ==
    /\ Here' = IF Here = 0 THEN 0 ELSE Here - 1
    /\ \A place \in 0 .. Places - 1 :
        Cell(place)' = IF place = Here' THEN " " ELSE Cell(place)

\* A backspace goes back over the edge of a row, and stays in the corner.
LEMMA BackspaceCells == ASSUME VgaTypeOK, vga_putc("backspace") PROVE Rubbed
<1>1. screen \in [Rows -> Line] /\ cursor \in Rows \X Cols
  BY DEF VgaTypeOK
<1>2. PICK row \in Rows, col \in Cols : cursor = <<row, col>>
  BY <1>1
<1>3. /\ cursor[1] = row /\ cursor[2] = col
      /\ row \in 0 .. VGA_HEIGHT - 1 /\ col \in 0 .. VGA_WIDTH - 1
      /\ VGA_WIDTH \in Nat /\ VGA_WIDTH >= 1 /\ VGA_HEIGHT \in Nat /\ VGA_HEIGHT >= 2
  BY <1>2, Sizes DEF Rows, Cols
<1>4. /\ row * VGA_WIDTH \in Int /\ row - 1 \in Int
      /\ Here = row * VGA_WIDTH + col /\ Here \in Nat /\ Places \in Nat
  BY <1>1, <1>3, RowProduct, HereIs
<1>5. /\ (row - 1) * VGA_WIDTH \in Int
      /\ row * VGA_WIDTH = (row - 1) * VGA_WIDTH + VGA_WIDTH
  <2>1. /\ (row - 1) * VGA_WIDTH \in Int
        /\ ((row - 1) + 1) * VGA_WIDTH = (row - 1) * VGA_WIDTH + VGA_WIDTH
    BY <1>4, RowProduct, Zenon
  <2>2. (row - 1) + 1 = row
    BY <1>3
  <2>. QED
    BY <2>1, <2>2
<1>6. ASSUME NEW r \in Rows, NEW k \in Cols, Moved("backspace") = <<r, k>>,
             r * VGA_WIDTH + k = IF Here = 0 THEN 0 ELSE Here - 1
      PROVE  Rubbed
  <2>1. Moved("backspace")[1] = r /\ Moved("backspace")[2] = k /\ r < VGA_HEIGHT
    BY <1>3, <1>6 DEF Rows
  <2>2. screen' = Marked(screen, "backspace") /\ cursor' = <<r, k>>
    BY <1>6, <2>1 DEF vga_putc
  <2>3. Marked(screen, "backspace") = [screen EXCEPT ![r][k] = " "]
    BY <2>1 DEF Marked
  <2>4. Here' = r * VGA_WIDTH + k
    BY <2>2 DEF Here
  <2>5. ASSUME NEW place \in 0 .. Places - 1
        PROVE  Cell(place)' = IF place = Here' THEN " " ELSE Cell(place)
    <3>1. PICK s \in Rows, m \in Cols : InPlace(place, s, m)
      BY PlaceFound
    <3>2. place = s * VGA_WIDTH + m /\ Cell(place) = screen[s][m]
      BY <3>1 DEF InPlace
    <3>3. Cell(place)' = screen'[s][m]
      BY <3>2, PlaceCellThen
    <3>4. screen'[s][m] = IF s = r /\ m = k THEN " " ELSE screen[s][m]
      <4>1. screen[r] \in [Cols -> Glyphs \union {" "}]
        BY <1>1 DEF Line
      <4>2. screen'[s] = IF s = r THEN [screen[r] EXCEPT ![k] = " "] ELSE screen[s]
        BY <1>1, <2>2, <2>3
      <4>3. [screen[r] EXCEPT ![k] = " "][m] = IF m = k THEN " " ELSE screen[r][m]
        BY <4>1
      <4>. QED
        BY <4>2, <4>3
    <3>5. (place = Here') <=> (s = r /\ m = k)
      <4>1. /\ s \in Int /\ r \in Int /\ m \in 0 .. VGA_WIDTH - 1 /\ k \in 0 .. VGA_WIDTH - 1
            /\ s * VGA_WIDTH \in Int /\ r * VGA_WIDTH \in Int
        BY <1>3, RowProduct DEF Rows, Cols
      <4>2. s < r => s * VGA_WIDTH + VGA_WIDTH <= r * VGA_WIDTH
        BY <4>1, RowOrder
      <4>3. r < s => r * VGA_WIDTH + VGA_WIDTH <= s * VGA_WIDTH
        BY <4>1, RowOrder
      <4>4. place = Here' => s = r
        BY <1>3, <2>4, <3>2, <4>1, <4>2, <4>3
      <4>. QED
        BY <1>3, <2>4, <3>2, <4>1, <4>4
    <3>. QED
      BY <3>2, <3>3, <3>4, <3>5
  <2>. QED
    BY <1>6, <2>4, <2>5 DEF Rubbed
<1>7. CASE col > 0
  <2>1. Moved("backspace") = <<row, col - 1>> /\ col - 1 \in Cols
    BY <1>3, <1>7 DEF Moved, Cols
  <2>2. Here # 0 /\ row * VGA_WIDTH + (col - 1) = Here - 1
    <3>1. row * VGA_WIDTH >= 0
      BY <1>3
    <3>. QED
      BY <1>3, <1>4, <1>7, <3>1
  <2>. QED
    BY <1>6, <2>1, <2>2
<1>8. CASE col = 0 /\ row > 0
  <2>1. Moved("backspace") = <<row - 1, VGA_WIDTH - 1>>
    BY <1>3, <1>8 DEF Moved
  <2>2. row - 1 \in Rows /\ VGA_WIDTH - 1 \in Cols
    BY <1>3, <1>8, Sizes DEF Rows
  <2>3. (row - 1) * VGA_WIDTH + (VGA_WIDTH - 1) = Here - 1
    BY <1>3, <1>4, <1>5, <1>8
  <2>4. Here # 0
    <3>1. (row - 1) * VGA_WIDTH >= 0
      BY <1>3, <1>8
    <3>. QED
      BY <1>3, <1>4, <1>5, <1>8, <3>1
  <2>. QED
    BY <1>6, <2>1, <2>2, <2>3, <2>4
<1>9. CASE col = 0 /\ row = 0
  <2>1. Moved("backspace") = <<0, 0>>
    BY <1>2, <1>3, <1>9 DEF Moved
  <2>2. 0 * VGA_WIDTH + 0 = 0 /\ Here = 0
    BY <1>3, <1>4, <1>9
  <2>3. 0 \in Rows /\ 0 \in Cols
    BY Sizes
  <2>. QED
    BY <1>6, <2>1, <2>2, <2>3
<1>. QED
  BY <1>3, <1>7, <1>8, <1>9

\* The cursor is at the left edge.
LeftEdge == \E row \in Rows : Here = row * VGA_WIDTH

\* A new line begins at the left edge, with nothing behind it.
LEMMA NewlineCells ==
    ASSUME VgaTypeOK, BlankBehind, vga_putc("newline")
    PROVE  BlankBehind' /\ LeftEdge'
<1>1. screen \in [Rows -> Line] /\ cursor \in Rows \X Cols
  BY DEF VgaTypeOK
<1>2. PICK row \in Rows, col \in Cols : cursor = <<row, col>>
  BY <1>1
<1>3. /\ cursor[1] = row /\ cursor[2] = col
      /\ row \in 0 .. VGA_HEIGHT - 1 /\ col \in 0 .. VGA_WIDTH - 1
      /\ VGA_WIDTH \in Nat /\ VGA_WIDTH >= 1 /\ VGA_HEIGHT \in Nat /\ VGA_HEIGHT >= 2
  BY <1>2, Sizes DEF Rows, Cols
<1>4. /\ row * VGA_WIDTH \in Int /\ (row + 1) * VGA_WIDTH = row * VGA_WIDTH + VGA_WIDTH
      /\ Here = row * VGA_WIDTH + col /\ Here \in Nat /\ Places \in Nat
  BY <1>1, <1>3, RowProduct, HereIs
<1>5. Moved("newline") = <<row + 1, 0>> /\ Marked(screen, "newline") = screen
  BY <1>3 DEF Moved, Marked
<1>6. CASE row + 1 < VGA_HEIGHT
  <2>1. screen' = screen /\ cursor' = <<row + 1, 0>>
    BY <1>5, <1>6 DEF vga_putc
  <2>2. Here' = (row + 1) * VGA_WIDTH + 0 /\ row + 1 \in Rows
    BY <1>3, <1>6, <2>1 DEF Here, Rows
  <2>3. Here' = (row + 1) * VGA_WIDTH /\ Here <= Here' /\ Here' \in Int
    BY <1>3, <1>4, <2>2
  <2>4. \A place : Cell(place)' = Cell(place)
    BY <2>1 DEF Cell
  <2>5. ASSUME NEW place \in Here' .. Places - 1 PROVE place \in Here .. Places - 1
    BY <1>4, <2>3
  <2>6. BlankBehind'
    BY <2>4, <2>5 DEF BlankBehind, Places
  <2>. QED
    BY <2>2, <2>3, <2>6 DEF LeftEdge, Rows
<1>7. CASE row + 1 = VGA_HEIGHT
  <2>1. ~ (Moved("newline")[1] < VGA_HEIGHT)
    BY <1>3, <1>5, <1>7
  <2>2. /\ screen' = [r \in Rows |-> IF r = VGA_HEIGHT - 1 THEN BlankLine
                                     ELSE Marked(screen, "newline")[r + 1]]
        /\ cursor' = <<VGA_HEIGHT - 1, 0>>
    BY <1>5, <2>1 DEF vga_putc
  <2>3. VGA_HEIGHT - 1 = row
    BY <1>3, <1>7
  <2>4. Here' = row * VGA_WIDTH + 0
    BY <2>2, <2>3 DEF Here
  <2>5. Here' = row * VGA_WIDTH /\ Here' \in Int
    BY <1>4, <2>4
  <2>6. ASSUME NEW place \in Here' .. Places - 1 PROVE Cell(place)' = " "
    <3>1. row * VGA_WIDTH >= 0
      BY <1>3
    <3>2. place \in 0 .. Places - 1
      BY <1>4, <2>5, <3>1
    <3>3. PICK r \in Rows, k \in Cols : InPlace(place, r, k)
      BY <3>2, PlaceFound
    <3>4. place = r * VGA_WIDTH + k
      BY <3>3 DEF InPlace
    <3>5. Cell(place)' = screen'[r][k]
      BY <3>4, PlaceCellThen
    <3>6. r \in 0 .. VGA_HEIGHT - 1 /\ k \in 0 .. VGA_WIDTH - 1 /\ r * VGA_WIDTH \in Int
      BY <1>3, RowProduct DEF Rows, Cols
    <3>7. r < row => r * VGA_WIDTH + VGA_WIDTH <= row * VGA_WIDTH
      BY <1>3, <3>6, RowOrder
    <3>8. ~ (r < row)
      BY <1>3, <1>4, <2>5, <3>4, <3>6, <3>7
    <3>9. r = VGA_HEIGHT - 1
      BY <1>3, <2>3, <3>6, <3>8
    <3>. QED
      BY <2>2, <3>5, <3>9 DEF BlankLine
  <2>7. BlankBehind'
    BY <2>6 DEF BlankBehind, Places
  <2>. QED
    BY <2>5, <2>7 DEF LeftEdge, Rows
<1>. QED
  BY <1>3, <1>6, <1>7

\* A cleared screen is blank from its corner on.
LEMMA ClearCells == ASSUME vga_clear PROVE BlankBehind' /\ LeftEdge'
<1>1. screen' = [row \in Rows |-> BlankLine] /\ cursor' = <<0, 0>>
  BY DEF vga_clear
<1>2. Here' = 0 * VGA_WIDTH + 0
  BY <1>1 DEF Here
<1>3. 0 * VGA_WIDTH = 0
  BY Sizes
<1>4. Here' = 0 * VGA_WIDTH /\ Here' = 0
  BY <1>2, <1>3
<1>5. ASSUME NEW place \in 0 .. Places - 1 PROVE Cell(place)' = " "
  <2>1. PICK r \in Rows, k \in Cols : InPlace(place, r, k)
    BY PlaceFound
  <2>2. Cell(place)' = screen'[r][k]
    BY <2>1, PlaceCellThen DEF InPlace
  <2>. QED
    BY <1>1, <2>2 DEF BlankLine
<1>6. BlankBehind'
  BY <1>4, <1>5 DEF BlankBehind, Places
<1>7. 0 \in Rows
  BY Sizes
<1>. QED
  BY <1>4, <1>6, <1>7 DEF LeftEdge, Rows

\* Whatever is written, nothing stands behind the cursor.
LEMMA BlankKept ==
    ASSUME VgaTypeOK, BlankBehind, NEW c \in Out, vga_putc(c)
    PROVE  BlankBehind'
<1>1. Here \in 0 .. Places - 1 /\ Here \in Nat /\ Places \in Nat /\ VGA_WIDTH \in Nat
  BY HereIs, Sizes DEF VgaTypeOK
<1>2. \A place \in Here .. Places - 1 : Cell(place) = " "
  BY DEF BlankBehind
<1>3. CASE c = "newline"
  BY <1>3, NewlineCells
<1>4. CASE c = "backspace"
  <2>1. Rubbed
    BY <1>4, BackspaceCells
  <2>2. Here' \in 0 .. Here /\ (Here' = Here - 1 \/ Here' = Here)
    <3>1. Here' = IF Here = 0 THEN 0 ELSE Here - 1
      BY <2>1 DEF Rubbed
    <3>. QED
      BY <1>1, <3>1
  <2>3. ASSUME NEW place \in Here' .. Places - 1 PROVE Cell(place)' = " "
    <3>1. place \in 0 .. Places - 1 /\ (place = Here' \/ place \in Here .. Places - 1)
      BY <1>1, <2>2
    <3>. QED
      BY <1>2, <2>1, <3>1 DEF Rubbed
  <2>. QED
    BY <2>3 DEF BlankBehind, Places
<1>5. CASE c \in Glyphs
  <2>1. PICK d \in {0, VGA_WIDTH} : Typed(c, d) /\ (Here + 1 - d >= 0)
    <3>1. CASE Here + 1 = Places
      <4>1. Places >= VGA_WIDTH
        BY Sizes DEF Places
      <4>. QED
        BY <1>1, <1>5, <3>1, <4>1, GlyphCells
    <3>2. CASE Here + 1 # Places
      BY <1>1, <1>5, <3>2, GlyphCells
    <3>. QED
      BY <3>1, <3>2
  <2>2. Here' = Here + 1 - d /\ d \in Nat
    <3>1. Here' = Here + 1 - d
      BY <2>1 DEF Typed
    <3>. QED
      BY <1>1, <3>1
  <2>3. ASSUME NEW place \in Here' .. Places - 1 PROVE Cell(place)' = " "
    <3>1. place \in 0 .. Places - 1 /\ place + d >= Here + 1
      BY <1>1, <2>1, <2>2
    <3>2. Cell(place)' = IF place + d >= Places THEN " "
                         ELSE IF place + d = Here THEN c ELSE Cell(place + d)
      BY <2>1, <3>1 DEF Typed
    <3>3. place + d < Places => place + d \in Here .. Places - 1 /\ place + d # Here
      BY <1>1, <2>2, <3>1
    <3>4. place + d >= Places \/ place + d < Places
      BY <1>1, <2>2, <3>1
    <3>. QED
      BY <1>1, <1>2, <2>2, <3>1, <3>2, <3>3, <3>4
  <2>. QED
    BY <2>3 DEF BlankBehind, Places
<1>. QED
  BY <1>3, <1>4, <1>5 DEF Out

RestOf(s, m, rest) ==
    /\ rest \in Seq(Call)
    /\ m = Len(s) => rest = <<>>
    /\ m < Len(s) => rest # <<>> /\ Head(rest) = s[m + 1] /\ Tail(rest) = SubSeq(s, m + 2, Len(s))
    /\ m = 0 => rest = s

\* What is left of a sequence.
LEMMA RestIs ==
    ASSUME NEW s \in Seq(Call), NEW m \in 0 .. Len(s), NEW rest,
           rest = SubSeq(s, m + 1, Len(s))
    PROVE  RestOf(s, m, rest)
<1>1. m \in Int /\ Len(s) \in Nat /\ m <= Len(s) /\ m >= 0 /\ m + 1 \in Int
  OBVIOUS
<1>2. rest \in Seq(Call)
  <2>1. \A i \in m + 1 .. Len(s) : s[i] \in Call
    BY <1>1
  <2>. QED
    BY <1>1, <2>1, SubSeqProperties
<1>3. CASE m = Len(s)
  <2>1. Len(s) < m + 1
    BY <1>1, <1>3
  <2>2. rest = <<>>
    BY <1>1, <2>1, SubSeqEmpty
  <2>3. m = 0 => s = <<>>
    BY <1>1, <1>3, EmptySeq
  <2>. QED
    BY <1>1, <1>2, <1>3, <2>2, <2>3 DEF RestOf
<1>4. CASE m < Len(s)
  <2>1. m + 1 \in 1 .. Len(s) /\ Len(s) \in m + 1 .. Len(s) /\ (m + 1) + 1 = m + 2
    BY <1>1, <1>4
  <2>2. Head(rest) = s[m + 1] /\ Tail(rest) = SubSeq(s, m + 2, Len(s))
    BY <2>1, HeadTailOfSubSeq
  <2>3. rest # <<>>
    <3>1. Len(rest) = (Len(s) - (m + 1)) + 1
      <4>1. \A i \in m + 1 .. Len(s) : s[i] \in Call
        BY <1>1
      <4>. QED
        BY <1>1, <1>4, <4>1, SubSeqProperties
    <3>2. Len(rest) # 0
      BY <1>1, <1>4, <3>1
    <3>3. Len(<<>>) = 0
      OBVIOUS
    <3>. QED
      BY <3>2, <3>3
  <2>4. m = 0 => rest = s
    BY <1>1, SubSeqFull
  <2>. QED
    BY <1>1, <1>2, <1>4, <2>2, <2>3, <2>4 DEF RestOf
<1>. QED
  BY <1>1, <1>3, <1>4

ErasingThen(k, g, calls) ==
    /\ calls \in Seq(Call)
    /\ k = 0 => calls = g
    /\ k > 0 => /\ calls # <<>> /\ Head(calls) = "backspace"
                /\ Tail(calls) = Erasing(k - 1) \o g

\* The backspaces go first.
LEMMA ErasingIs ==
    ASSUME NEW k \in Nat, NEW g \in Seq(Call), NEW calls, calls = Erasing(k) \o g
    PROVE  ErasingThen(k, g, calls)
<1>0. "backspace" \in Call
  BY DEF Call, Out
<1>1. ASSUME NEW n \in Nat
      PROVE  /\ Erasing(n) \in Seq(Call) /\ Len(Erasing(n)) = n
             /\ \A i \in 1 .. n : Erasing(n)[i] = "backspace"
  <2>1. Erasing(n) \in [1 .. n -> Call]
    BY <1>0 DEF Erasing
  <2>2. Erasing(n) \in Seq(Call) /\ Len(Erasing(n)) = n
    BY <2>1
  <2>. QED
    BY <2>2 DEF Erasing
<1> DEFINE e == Erasing(k)
<1>2. e \in Seq(Call) /\ Len(e) = k /\ \A i \in 1 .. k : e[i] = "backspace"
  BY <1>1
<1> HIDE DEF e
<1>3. /\ calls \in Seq(Call) /\ Len(calls) = k + Len(g)
      /\ \A i \in 1 .. k + Len(g) : calls[i] = IF i <= k THEN e[i] ELSE g[i - k]
  <2>1. calls = e \o g
    BY DEF e
  <2>2. /\ e \o g \in Seq(Call) /\ Len(e \o g) = Len(e) + Len(g)
        /\ \A i \in 1 .. Len(e) + Len(g) : (e \o g)[i] = IF i <= Len(e) THEN e[i] ELSE g[i - Len(e)]
    BY <1>2, ConcatProperties, Zenon
  <2>. QED
    BY <1>2, <2>1, <2>2, Zenon
<1>4. CASE k = 0
  <2>1. e = <<>>
    BY <1>2, <1>4, EmptySeq
  <2>2. calls = <<>> \o g
    BY <2>1 DEF e
  <2>3. <<>> \o g = g
    BY ConcatEmptySeq
  <2>. QED
    BY <1>3, <1>4, <2>2, <2>3 DEF ErasingThen
<1>5. CASE k > 0
  <2>0. Len(g) \in Nat /\ Len(calls) > 0 /\ k - 1 \in Nat
    BY <1>3, <1>5
  <2>1. calls # <<>>
    BY <2>0, EmptySeq
  <2>2. /\ Head(calls) = calls[1] /\ Tail(calls) \in Seq(Call) /\ Len(Tail(calls)) = Len(calls) - 1
        /\ \A i \in 1 .. Len(Tail(calls)) : Tail(calls)[i] = calls[i + 1]
    BY <1>3, <2>1, HeadTailProperties
  <2>3. calls[1] = "backspace"
    <3>1. 1 \in 1 .. k /\ 1 \in 1 .. k + Len(g)
      BY <1>5, <2>0
    <3>. QED
      BY <1>2, <1>3, <3>1
  <2> DEFINE f == Erasing(k - 1)
  <2>4. f \in Seq(Call) /\ Len(f) = k - 1 /\ \A i \in 1 .. k - 1 : f[i] = "backspace"
    BY <1>1, <2>0
  <2> HIDE DEF f
  <2>5. /\ f \o g \in Seq(Call) /\ Len(f \o g) = (k - 1) + Len(g)
        /\ \A i \in 1 .. (k - 1) + Len(g) : (f \o g)[i] = IF i <= k - 1 THEN f[i] ELSE g[i - (k - 1)]
    <3>1. /\ f \o g \in Seq(Call) /\ Len(f \o g) = Len(f) + Len(g)
          /\ \A i \in 1 .. Len(f) + Len(g) : (f \o g)[i] = IF i <= Len(f) THEN f[i] ELSE g[i - Len(f)]
      BY <2>4, ConcatProperties, Zenon
    <3>. QED
      BY <2>4, <3>1, Zenon
  <2>6. Len(Tail(calls)) = Len(f \o g)
    BY <1>3, <2>0, <2>2, <2>5
  <2>7. ASSUME NEW i \in 1 .. Len(Tail(calls)) PROVE Tail(calls)[i] = (f \o g)[i]
    <3>1. i \in 1 .. (k - 1) + Len(g) /\ i + 1 \in 1 .. k + Len(g)
      BY <1>3, <2>0, <2>2
    <3>2. Tail(calls)[i] = IF i + 1 <= k THEN e[i + 1] ELSE g[(i + 1) - k]
      BY <1>3, <2>2, <3>1
    <3>3. (f \o g)[i] = IF i <= k - 1 THEN f[i] ELSE g[i - (k - 1)]
      BY <2>5, <3>1
    <3>4. i + 1 <= k <=> i <= k - 1
      BY <3>1
    <3>5. CASE i <= k - 1
      <4>1. i \in 1 .. k - 1 /\ i + 1 \in 1 .. k
        BY <3>1, <3>5
      <4>. QED
        BY <1>2, <2>4, <3>2, <3>3, <3>5, <4>1
    <3>6. CASE ~ (i <= k - 1)
      <4>1. (i + 1) - k = i - (k - 1)
        BY <3>1
      <4>. QED
        BY <3>2, <3>3, <3>4, <3>6, <4>1
    <3>. QED
      BY <3>5, <3>6
  <2>8. Tail(calls) = f \o g
    BY <2>2, <2>5, <2>6, <2>7, SeqEqual
  <2>9. calls \in Seq(Call) /\ k # 0 /\ Head(calls) = "backspace"
    BY <1>3, <1>5, <2>2, <2>3
  <2>10. Tail(calls) = Erasing(k - 1) \o g
    BY <2>8 DEF f
  <2>. QED
    BY <2>1, <2>9, <2>10 DEF ErasingThen
<1>. QED
  BY <1>4, <1>5

ShownIs ==
    /\ lead \in Seq(Glyphs) /\ Echoed(out) \in Seq(Glyphs) /\ Len(Echoed(out)) = drawn
    /\ drawn \in Nat
    /\ Shown \in Seq(Glyphs) /\ Shown \in Seq(Call) /\ Len(Shown) = Len(lead) + drawn
    /\ Len(Shown) < Len(Prompt) + LINE_MAX
    /\ \A i \in 1 .. Len(Shown) : Shown[i] \in Glyphs

\* A line takes cells, whatever its echo.
LEMMA EchoedGlyphs ==
    ASSUME call \in Calls, NEW s \in Seq(Chars)
    PROVE  Echoed(s) \in Seq(Glyphs)
<1>0. Chars \subseteq Glyphs /\ Star \in Glyphs
  BY ConsoleAssumption
<1>1. CASE call.echo = "plain"
  BY <1>0, <1>1, SeqMonotonic DEF Echoed
<1>2. CASE call.echo = "hidden"
  BY <1>2, EmptySeq DEF Echoed
<1>3. CASE call.echo = "stars"
  <2>1. Echoed(s) = [i \in 1 .. Len(s) |-> Star] /\ Len(s) \in Nat
    BY <1>3 DEF Echoed
  <2>. QED
    BY <1>0, <2>1
<1>4. call.echo \in {"plain", "hidden", "stars"}
  <2>1. CASE call = Shell
    BY <2>1 DEF Shell
  <2>2. CASE call \in [echo : Echoes, use_history : {FALSE}, size : {SMALL}]
    BY <2>2, ConsoleAssumption
  <2>. QED
    BY <2>1, <2>2 DEF Calls
<1>. QED
  BY <1>1, <1>2, <1>3, <1>4

\* What is shown takes cells, and fits the screen.
LEMMA ShownFits == EditorInv => ShownIs
<1> SUFFICES ASSUME EditorInv PROVE ShownIs
  OBVIOUS
<1>1. /\ call \in Calls /\ out \in Seq(Chars) /\ Len(out) <= LINE_MAX - 1 /\ Len(out) \in Nat
      /\ lead \in {Prompt, <<>>} /\ LINE_MAX \in Nat
      /\ drawn = IF call.echo = "hidden" THEN 0 ELSE Len(out)
  BY LineIs, ConsoleAssumption DEF EditorInv, ConsoleTypeOK
<1>2. Echoed(out) \in Seq(Glyphs) /\ Len(Echoed(out)) = drawn /\ drawn \in Nat
  BY <1>1, EchoedGlyphs, EchoedLen
<1>3. Prompt \in Seq(Glyphs) /\ Len(Prompt) \in Nat
  BY OutputsAssumption, LenProperties
<1>4. lead \in Seq(Glyphs) /\ Len(lead) \in Nat /\ Len(lead) <= Len(Prompt)
  <2>1. <<>> \in Seq(Glyphs) /\ Len(<<>>) = 0
    BY EmptySeq
  <2>2. CASE lead = Prompt
    BY <1>3, <2>2
  <2>3. CASE lead = <<>>
    BY <1>3, <2>1, <2>3
  <2>. QED
    BY <1>1, <2>2, <2>3
<1> DEFINE s == Echoed(out)
<1>5. s \in Seq(Glyphs) /\ Len(s) = drawn
  BY <1>2
<1>6. Shown = lead \o s
  BY DEF Shown
<1> HIDE DEF s
<1>7. Shown \in Seq(Glyphs) /\ Len(Shown) = Len(lead) + drawn
  BY <1>4, <1>5, <1>6, ConcatProperties
<1>8. Len(Shown) < Len(Prompt) + LINE_MAX
  BY <1>1, <1>3, <1>4, <1>7
<1>9. Shown \in Seq(Call)
  <2>1. Glyphs \subseteq Call
    BY DEF Call, Out
  <2>. QED
    BY <1>7, <2>1, SeqMonotonic
<1>10. \A i \in 1 .. Len(Shown) : Shown[i] \in Glyphs
  BY <1>7, ElementOfSeq
<1>. QED
  BY <1>2, <1>4, <1>7, <1>8, <1>9, <1>10 DEF ShownIs


\* The last of the characters to go is erased.
LEMMA EraseOne ==
    ASSUME VgaTypeOK, NEW n, NEW m, Standing(n, m), m < n, vga_putc("backspace"),
           Shown' = Shown
    PROVE  Standing(n - 1, m)'
<1>1. /\ Here \in 0 .. Places - 1 /\ Here \in Nat /\ Places \in Nat
  BY HereIs DEF VgaTypeOK
<1>2. /\ n \in 0 .. Here /\ m \in 0 .. n /\ m <= Len(Shown) /\ AtEdge(Here - n)
      /\ \A i \in 1 .. m : Cell(Here - n + i - 1) = Shown[i]
  BY DEF Standing
<1>3. Rubbed
  BY BackspaceCells
<1>4. Here' = Here - 1
  <2>1. Here' = IF Here = 0 THEN 0 ELSE Here - 1
    BY <1>3 DEF Rubbed
  <2>. QED
    BY <1>1, <1>2, <2>1
<1>5. n - 1 \in 0 .. Here' /\ m \in 0 .. n - 1 /\ Here' - (n - 1) = Here - n
  BY <1>1, <1>2, <1>4
<1>6. ASSUME NEW i \in 1 .. m PROVE Cell(Here - (n - 1) + i - 1)' = Shown[i]
  <2>0. Here - n + i - 1 \in 0 .. Places - 1
    BY <1>1, <1>2
  <2>1. PICK place \in 0 .. Places - 1 : place = Here - n + i - 1
    BY <2>0
  <2>2. Here' - (n - 1) + i - 1 = place /\ place # Here - 1
    BY <1>1, <1>2, <1>4, <2>1
  <2>3. Cell(place) = Shown[i]
    BY <1>2, <2>1
  <2>4. Cell(place)' = Cell(place)
    BY <1>3, <1>4, <2>2 DEF Rubbed
  <2>. QED
    BY <2>2, <2>3, <2>4 DEF Cell
<1>7. AtEdge(Here' - (n - 1))
  BY <1>2, <1>5
<1>. QED
  BY <1>2, <1>5, <1>6, <1>7 DEF Standing, AtEdge, Roomy, Rows

\* The next character of what is to be shown is written.
LEMMA WriteOne ==
    ASSUME VgaTypeOK, ShownIs, NEW n, Standing(n, n), n < Len(Shown),
           vga_putc(Shown[n + 1]), Shown' = Shown
    PROVE  Standing(n + 1, n + 1)'
<1>1. /\ Here \in 0 .. Places - 1 /\ Here \in Nat /\ Places \in Nat
      /\ VGA_WIDTH \in Nat /\ VGA_WIDTH >= 1 /\ VGA_HEIGHT \in Nat /\ VGA_HEIGHT >= 2
  BY HereIs, Sizes DEF VgaTypeOK
<1>2. /\ n \in 0 .. Here /\ n <= Len(Shown) /\ AtEdge(Here - n)
      /\ \A i \in 1 .. n : Cell(Here - n + i - 1) = Shown[i]
  BY DEF Standing
<1>3. Len(Shown) \in Nat /\ Len(Shown) < Len(Prompt) + LINE_MAX
      /\ Len(Prompt) \in Nat /\ LINE_MAX \in Nat
      /\ Len(Prompt) + LINE_MAX <= Places
  BY LenProperties, ConsoleAssumption, OutputsAssumption DEF ShownIs, Places
<1> DEFINE c == Shown[n + 1]
<1>4. c \in Glyphs
  <2>1. n + 1 \in 1 .. Len(Shown)
    BY <1>1, <1>2, <1>3
  <2>. QED
    BY <2>1 DEF ShownIs
<1>5. ASSUME NEW d \in {0, VGA_WIDTH}, Typed(c, d), n + d <= Here, AtEdge(Here - d - n)
      PROVE  Standing(n + 1, n + 1)'
  <2>0. d \in Nat
    BY <1>1
  <2>1. Here' = Here + 1 - d
    BY <1>5 DEF Typed
  <2>2. n + 1 \in 0 .. Here' /\ n + 1 \in 0 .. n + 1 /\ n + 1 <= Len(Shown)
    BY <1>1, <1>2, <1>3, <1>5, <2>0, <2>1
  <2>3. Here' - (n + 1) = Here - d - n
    BY <1>1, <1>2, <2>0, <2>1
  <2>4. ASSUME NEW i \in 1 .. n + 1 PROVE Cell(Here - (n + 1) + i - 1)' = Shown[i]
    <3>0. Here - d - n + i - 1 \in 0 .. Places - 1
      BY <1>1, <1>2, <1>5, <2>0
    <3>9. PICK place \in 0 .. Places - 1 : place = Here - d - n + i - 1
      BY <3>0
    <3>1. place + d = Here - n + i - 1 /\ place + d < Places /\ (place + d = Here <=> i = n + 1)
      BY <1>1, <1>2, <1>5, <2>0, <3>9
    <3>2. Here' - (n + 1) + i - 1 = place
      BY <1>1, <1>2, <2>0, <2>1, <3>9
    <3>3. i # n + 1 => Cell(Here - n + i - 1) = Shown[i]
      BY <1>1, <1>2
    <3>4. Cell(place)' = IF place + d >= Places THEN " "
                         ELSE IF place + d = Here THEN c ELSE Cell(place + d)
      BY <1>5, <3>1 DEF Typed
    <3>5. ~ (place + d >= Places)
      BY <1>1, <2>0, <3>1
    <3>6. Cell(place)' = Shown[i]
      BY <3>1, <3>3, <3>4, <3>5
    <3>. QED
      BY <3>2, <3>6 DEF Cell
  <2>5. AtEdge(Here' - (n + 1))
    BY <1>5, <2>3
  <2>. QED
    BY <2>2, <2>4, <2>5 DEF Standing, AtEdge, Roomy, Rows
<1>6. CASE Here + 1 # Places
  <2>1. Typed(c, 0)
    BY <1>4, <1>6, GlyphCells
  <2>2. Here - 0 - n = Here - n /\ n + 0 <= Here
    BY <1>1, <1>2
  <2>. QED
    BY <1>2, <1>5, <2>1, <2>2
<1>7. CASE Here + 1 = Places
  <2>1. Typed(c, VGA_WIDTH)
    BY <1>4, <1>7, GlyphCells
  <2>2. /\ (VGA_HEIGHT - 1) * VGA_WIDTH \in Int
        /\ Places = (VGA_HEIGHT - 1) * VGA_WIDTH + VGA_WIDTH
    <3>1. VGA_HEIGHT - 1 \in Int /\ (VGA_HEIGHT - 1) + 1 = VGA_HEIGHT
      BY <1>1
    <3>2. /\ (VGA_HEIGHT - 1) * VGA_WIDTH \in Int
          /\ ((VGA_HEIGHT - 1) + 1) * VGA_WIDTH = (VGA_HEIGHT - 1) * VGA_WIDTH + VGA_WIDTH
      BY <3>1, RowProduct, Zenon
    <3>3. Places = VGA_HEIGHT * VGA_WIDTH
      BY <1>1 DEF Places
    <3>. QED
      BY <3>1, <3>2, <3>3
  <2>3. CASE Roomy
    <3>1. Len(Prompt) + LINE_MAX <= (VGA_HEIGHT - 1) * VGA_WIDTH
      BY <1>1, <2>3 DEF Roomy
    <3>2. n + VGA_WIDTH <= Here
      BY <1>1, <1>2, <1>3, <1>7, <2>2, <3>1
    <3>. QED
      BY <1>5, <2>1, <2>3, <3>2 DEF AtEdge
  <2>4. CASE \E row \in Rows : Here - n = row * VGA_WIDTH
    <3>1. PICK row \in Rows : Here - n = row * VGA_WIDTH
      BY <2>4
    <3>2. row \in 0 .. VGA_HEIGHT - 1 /\ row - 1 \in Int
      BY <1>1 DEF Rows
    <3>3. row # 0
      <4>1. CASE row = 0
        <5>1. Here - n = 0
          BY <1>1, <3>1, <4>1
        <5>. QED
          BY <1>1, <1>2, <1>3, <1>7, <5>1
      <4>. QED
        BY <4>1
    <3>4. /\ (row - 1) * VGA_WIDTH \in Int /\ row * VGA_WIDTH = (row - 1) * VGA_WIDTH + VGA_WIDTH
      <4>1. /\ (row - 1) * VGA_WIDTH \in Int
            /\ ((row - 1) + 1) * VGA_WIDTH = (row - 1) * VGA_WIDTH + VGA_WIDTH
        BY <3>2, RowProduct, Zenon
      <4>2. (row - 1) + 1 = row
        BY <3>2
      <4>. QED
        BY <4>1, <4>2
    <3>5. (row - 1) * VGA_WIDTH >= 0
      <4>1. row - 1 >= 0
        BY <3>2, <3>3
      <4>. QED
        BY <1>1, <3>2, <4>1
    <3>6. Here - VGA_WIDTH - n = (row - 1) * VGA_WIDTH /\ n + VGA_WIDTH <= Here
      <4>1. PICK x \in Int : x = (row - 1) * VGA_WIDTH
        BY <3>4
      <4>2. x >= 0 /\ Here - n = x + VGA_WIDTH
        BY <3>1, <3>4, <3>5, <4>1
      <4>3. Here - VGA_WIDTH - n = x /\ n + VGA_WIDTH <= Here
        BY <1>1, <1>2, <4>2
      <4>. QED
        BY <4>1, <4>3
    <3>7. row - 1 \in Rows
      BY <1>1, <3>2, <3>3 DEF Rows
    <3>8. AtEdge(Here - VGA_WIDTH - n)
      BY <3>6, <3>7 DEF AtEdge
    <3>. QED
      BY <1>5, <2>1, <3>6, <3>8
  <2>. QED
    BY <1>2, <2>3, <2>4 DEF AtEdge
<1>. QED
  BY <1>6, <1>7

\* The calls that scroll are no output.
LEMMA CallKinds ==
    /\ \A c \in Scrolls : c \notin Out /\ c # "clear"
    /\ "clear" \notin Out /\ "backspace" \in Out
    /\ \A c \in Call : c \in Out \/ c \in Scrolls \/ c = "clear"
BY OutputsAssumption DEF Out, Call, Scrolls

\* What each call on the agenda does.
LEMMA WriteDoes ==
    ASSUME Write
    PROVE  /\ agenda # <<>> /\ agenda' = Tail(agenda)
           /\ call' = call /\ out' = out /\ lead' = lead /\ drawn' = drawn
           /\ Head(agenda) \in Out => vga_putc(Head(agenda))
           /\ Head(agenda) = "clear" => vga_clear
           /\ Head(agenda) \in Scrolls => UNCHANGED <<screen, cursor>>
<1> DEFINE it == Head(agenda)
<1>1. /\ agenda # <<>> /\ agenda' = Tail(agenda) /\ UNCHANGED editor
      /\ \/ it \in Out /\ vga_putc(it)
         \/ it = "clear" /\ vga_clear
         \/ it \in Scrolls /\ \E target : ScrollInSession(target)
  BY Zenon DEF Write, Out, Scrolls
<1> HIDE DEF it
<1>2. it \in Scrolls => it \notin Out /\ it # "clear"
  BY CallKinds
<1>3. it = "clear" => it \notin Out
  BY CallKinds
<1>4. \A target : ScrollInSession(target) => UNCHANGED <<screen, cursor>>
  BY DEF ScrollInSession
<1>5. call' = call /\ out' = out /\ lead' = lead /\ drawn' = drawn
  BY <1>1 DEF editor
<1>. QED
  BY <1>1, <1>2, <1>3, <1>4, <1>5 DEF it

\* Where nothing is written, what stands there stays.
LEMMA StandingKept ==
    ASSUME UNCHANGED <<screen, cursor, lead, out, call>>, NEW calls, Editing(calls)
    PROVE  Editing(calls)'
BY DEF Editing, Standing, Remaining, AtEdge, Roomy, Here, Cell, Shown, Echoed, Erasing

\* The line may begin where the cursor is, with nothing written of it yet.
LEMMA LineBegins ==
    ASSUME ShownIs, cursor \in Rows \X Cols, AtEdge(Here), NEW calls, calls = Shown
    PROVE  Editing(calls)
<1>1. Here \in Nat /\ Len(Shown) \in Nat
  BY HereIs, LenProperties DEF ShownIs
<1>2. 0 \in 0 .. Here /\ 0 \in 0 .. 0 /\ Here - 0 = Here /\ 0 + 1 = 1 /\ 0 - 0 = 0
      /\ 0 <= Len(Shown)
  BY <1>1
<1>3. Standing(0, 0)
  BY <1>2 DEF Standing
<1>4. Remaining(0, 0) = Shown
  <2> DEFINE rest == SubSeq(Shown, 0 + 1, Len(Shown))
  <2>1. 0 \in 0 .. Len(Shown) /\ Shown \in Seq(Call)
    BY <1>1 DEF ShownIs
  <2>2. RestOf(Shown, 0, rest)
    BY <2>1, RestIs
  <2>3. rest = Shown /\ rest \in Seq(Call)
    BY <2>2 DEF RestOf
  <2>4. Remaining(0, 0) = Erasing(0) \o rest
    BY <1>2 DEF Remaining
  <2> HIDE DEF rest
  <2>5. ErasingThen(0, rest, Remaining(0, 0))
    BY <2>3, <2>4, ErasingIs
  <2>. QED
    BY <2>3, <2>5 DEF ErasingThen
<1>. QED
  BY <1>2, <1>3, <1>4 DEF Editing

\* The session works its agenda off.
LEMMA WriteText ==
    ASSUME VgaTypeOK, VgaTypeOK', ShownIs, TextInv, Write
    PROVE  TextInv'
<1>0. /\ agenda # <<>> /\ agenda' = Tail(agenda)
      /\ call' = call /\ out' = out /\ lead' = lead /\ drawn' = drawn
      /\ Head(agenda) \in Out => vga_putc(Head(agenda))
      /\ Head(agenda) = "clear" => vga_clear
      /\ Head(agenda) \in Scrolls => UNCHANGED <<screen, cursor>>
  BY WriteDoes
<1>1. agenda \in Seq(Call) /\ BlankBehind /\ (Editing(agenda) \/ Scrolling \/ Printing)
  BY DEF TextInv
<1>2. /\ Head(agenda) \in Call /\ agenda' \in Seq(Call) /\ Len(agenda') = Len(agenda) - 1
      /\ Len(agenda) \in Nat /\ Head(agenda) = agenda[1]
      /\ \A i \in 1 .. Len(agenda) - 1 : agenda'[i] = agenda[i + 1]
      /\ agenda' = SubSeq(agenda, 2, Len(agenda))
  BY <1>0, <1>1, HeadTailProperties, TailIsSubSeq, LenProperties
<1>3. Shown' = Shown /\ Echoed(out)' = Echoed(out)
  BY <1>0 DEF Shown, Echoed
<1>4. BlankBehind'
  <2>1. CASE Head(agenda) \in Scrolls
    BY <1>0, <1>1, <2>1 DEF BlankBehind, Here, Cell, Places
  <2>. QED
    BY <1>0, <1>1, <1>2, <2>1, CallKinds, BlankKept, ClearCells
<1>5. cursor \in Rows \X Cols /\ cursor' \in Rows \X Cols
  BY DEF VgaTypeOK
<1>6. Here \in Nat /\ Len(Shown) \in Nat /\ Shown \in Seq(Call)
  BY <1>5, HereIs, LenProperties DEF ShownIs
<1>7. CASE Editing(agenda)
  <2>1. PICK n \in 0 .. Here, m \in 0 .. Here : Standing(n, m) /\ agenda = Remaining(n, m)
    BY <1>7 DEF Editing
  <2>2. m \in 0 .. n /\ m <= Len(Shown) /\ m \in 0 .. Len(Shown) /\ n - m \in Nat
    BY <1>6, <2>1 DEF Standing
  <2> DEFINE rest == SubSeq(Shown, m + 1, Len(Shown))
  <2>3. RestOf(Shown, m, rest)
    BY <1>6, <2>2, RestIs
  <2>4. agenda = Erasing(n - m) \o rest
    BY <2>1 DEF Remaining
  <2> HIDE DEF rest
  <2>5. ErasingThen(n - m, rest, agenda)
    <3>1. rest \in Seq(Call)
      BY <2>3 DEF RestOf
    <3>. QED
      BY <2>2, <2>4, <3>1, ErasingIs
  <2>6. CASE m < n
    <3>1. Head(agenda) = "backspace" /\ agenda' = Erasing((n - m) - 1) \o rest
      <4>1. n - m > 0
        BY <2>1, <2>2, <2>6
      <4>. QED
        BY <1>0, <2>5, <4>1 DEF ErasingThen
    <3>2. vga_putc("backspace")
      BY <1>0, <3>1, CallKinds
    <3>3. Standing(n - 1, m)'
      BY <1>3, <2>1, <2>6, <3>2, EraseOne
    <3>4. (n - 1) - m = (n - m) - 1
      BY <2>1, <2>2
    <3>5. agenda' = Remaining(n - 1, m)'
      BY <1>3, <3>1, <3>4 DEF Remaining, rest, Erasing
    <3>6. n - 1 \in 0 .. Here' /\ m \in 0 .. Here'
      <4>1. n - 1 \in 0 .. Here' /\ m \in 0 .. n - 1
        BY <3>3 DEF Standing
      <4>2. Here' \in Int
        <5>1. (cursor \in Rows \X Cols => Here \in Nat)'
          BY HereIs, PTL
        <5>. QED
          BY <1>5, <5>1
      <4>. QED
        BY <4>1, <4>2
    <3>7. Editing(agenda)'
      BY <3>3, <3>5, <3>6 DEF Editing
    <3>. QED
      BY <1>2, <1>4, <3>7 DEF TextInv
  <2>7. CASE m = n
    <3>1. agenda = rest
      BY <2>2, <2>5, <2>7 DEF ErasingThen
    <3>2. m < Len(Shown)
      BY <1>0, <1>6, <2>2, <2>3, <3>1 DEF RestOf
    <3>3. Head(agenda) = Shown[n + 1] /\ agenda' = SubSeq(Shown, n + 2, Len(Shown))
      BY <1>0, <2>3, <2>7, <3>1, <3>2 DEF RestOf
    <3>4. Shown[n + 1] \in Glyphs
      <4>1. n + 1 \in 1 .. Len(Shown)
        BY <1>6, <2>1, <2>7, <3>2
      <4>. QED
        BY <4>1 DEF ShownIs
    <3>5. vga_putc(Shown[n + 1])
      BY <1>0, <3>3, <3>4 DEF Out
    <3>6. Standing(n, n) /\ n < Len(Shown)
      BY <2>1, <2>7, <3>2
    <3>7. Standing(n + 1, n + 1)'
      BY <1>3, <3>5, <3>6, WriteOne
    <3>8. agenda' = Remaining(n + 1, n + 1)'
      <4>1. (n + 1) + 1 = n + 2 /\ (n + 1) - (n + 1) = 0 /\ n + 1 \in 0 .. Len(Shown)
        BY <1>6, <2>1, <3>6
      <4> DEFINE left == SubSeq(Shown, (n + 1) + 1, Len(Shown))
      <4>2. RestOf(Shown, n + 1, left)
        BY <1>6, <4>1, RestIs
      <4>3. left \in Seq(Call) /\ agenda' = left
        BY <3>3, <4>1, <4>2 DEF RestOf
      <4>4. Remaining(n + 1, n + 1)' = Erasing(0) \o left
        BY <1>3, <4>1 DEF Remaining, Erasing
      <4> HIDE DEF left
      <4>5. ErasingThen(0, left, Erasing(0) \o left)
        BY <4>3, ErasingIs
      <4>. QED
        BY <4>3, <4>4, <4>5 DEF ErasingThen
    <3>9. n + 1 \in 0 .. Here'
      BY <3>7 DEF Standing
    <3>10. Editing(agenda)'
      BY <3>7, <3>8, <3>9 DEF Editing
    <3>. QED
      BY <1>2, <1>4, <3>10 DEF TextInv
  <2>. QED
    BY <2>1, <2>2, <2>6, <2>7
<1>8. CASE Scrolling
  <2>1. Head(agenda) \in Scrolls /\ Editing(Tail(agenda))
    BY <1>8 DEF Scrolling
  <2>2. PICK calls : calls = Tail(agenda)
    OBVIOUS
  <2>3. UNCHANGED <<screen, cursor, lead, out, call>>
    BY <1>0, <2>1
  <2>4. Editing(calls)' /\ agenda' = calls
    BY <1>0, <2>1, <2>2, <2>3, StandingKept
  <2>5. Editing(agenda)'
    BY <2>4 DEF Editing
  <2>. QED
    BY <1>2, <1>4, <2>5 DEF TextInv
<1>9. CASE Printing
  <2>1. PICK m \in 1 .. Len(agenda) :
            /\ Roomy \/ agenda[m] \in {"newline", "clear"}
            /\ SubSeq(agenda, m + 1, Len(agenda)) = Shown
    BY <1>9 DEF Printing
  <2>2. CASE m = 1
    <3>1. agenda' = Shown
      BY <1>2, <2>1, <2>2
    <3>2. AtEdge(Here)'
      <4>1. CASE Roomy
        BY <4>1 DEF AtEdge, Roomy
      <4>2. CASE Head(agenda) \in {"newline", "clear"}
        <5>1. LeftEdge'
          <6>1. CASE Head(agenda) = "newline"
            <7>1. vga_putc("newline")
              BY <1>0, <6>1 DEF Out
            <7>. QED
              BY <1>1, <7>1, NewlineCells
          <6>2. CASE Head(agenda) = "clear"
            BY <1>0, <6>2, ClearCells
          <6>. QED
            BY <4>2, <6>1, <6>2
        <5>. QED
          BY <5>1 DEF LeftEdge, AtEdge
      <4>. QED
        BY <1>2, <2>1, <2>2, <4>1, <4>2
    <3>3. PICK calls : calls = Shown
      OBVIOUS
    <3>4. (ShownIs /\ cursor \in Rows \X Cols /\ AtEdge(Here) /\ calls = Shown => Editing(calls))'
      BY LineBegins, PTL
    <3>5. ShownIs'
      BY <1>0, <1>3 DEF ShownIs
    <3>6. Editing(calls)' /\ agenda' = calls
      BY <1>3, <1>5, <3>1, <3>2, <3>3, <3>4, <3>5
    <3>7. Editing(agenda)'
      BY <3>6 DEF Editing
    <3>. QED
      BY <1>2, <1>4, <3>7 DEF TextInv
  <2>3. CASE m # 1
    <3>1. m - 1 \in 1 .. Len(agenda') /\ (m - 1) + 1 = m
      BY <1>2, <2>1, <2>3
    <3>2. agenda'[m - 1] = agenda[m]
      BY <1>2, <3>1
    <3>3. SubSeq(agenda', m, Len(agenda')) = SubSeq(agenda, m + 1, Len(agenda))
      BY <1>2
    <3>4. Printing'
      BY <1>3, <2>1, <3>1, <3>2, <3>3 DEF Printing, Roomy
    <3>. QED
      BY <1>2, <1>4, <3>4 DEF TextInv
  <2>. QED
    BY <2>2, <2>3
<1>. QED
  BY <1>1, <1>7, <1>8, <1>9

\* With nothing left to write the line stands there as it is to be shown.
LEMMA LineStands ==
    ASSUME TextInv, ShownIs, agenda = <<>>
    PROVE  Standing(Len(Shown), Len(Shown))
<1>1. Editing(agenda)
  <2>1. Len(agenda) = 0
    OBVIOUS
  <2>2. ~ Printing
    BY <2>1 DEF Printing
  <2>. QED
    BY <2>2 DEF TextInv, Scrolling
<1>2. PICK n \in 0 .. Here, m \in 0 .. Here : Standing(n, m) /\ agenda = Remaining(n, m)
  BY <1>1 DEF Editing
<1>3. Shown \in Seq(Call) /\ Len(Shown) \in Nat
  BY LenProperties DEF ShownIs
<1>4. m \in 0 .. n /\ m \in 0 .. Len(Shown) /\ n - m \in Nat
  BY <1>2, <1>3 DEF Standing
<1> DEFINE rest == SubSeq(Shown, m + 1, Len(Shown))
<1>5. RestOf(Shown, m, rest)
  BY <1>3, <1>4, RestIs
<1>6. agenda = Erasing(n - m) \o rest
  BY <1>2 DEF Remaining
<1> HIDE DEF rest
<1>7. ErasingThen(n - m, rest, agenda)
  <2>1. rest \in Seq(Call)
    BY <1>5 DEF RestOf
  <2>. QED
    BY <1>4, <1>6, <2>1, ErasingIs
<1>8. n - m = 0 /\ rest = <<>>
  BY <1>4, <1>7 DEF ErasingThen
<1>9. m = Len(Shown)
  BY <1>3, <1>4, <1>5, <1>8 DEF RestOf
<1>10. n = m
  BY <1>2, <1>4, <1>8
<1>. QED
  BY <1>2, <1>9, <1>10

\* What comes behind.
LEMMA BehindIs ==
    ASSUME NEW a \in Seq(Call), NEW b \in Seq(Call), NEW all, all = a \o b
    PROVE  SubSeq(all, Len(a) + 1, Len(all)) = b
<1>1. /\ all \in Seq(Call) /\ Len(all) = Len(a) + Len(b)
      /\ \A i \in 1 .. Len(a) + Len(b) : all[i] = IF i <= Len(a) THEN a[i] ELSE b[i - Len(a)]
  BY ConcatProperties, Zenon
<1>2. Len(a) \in Nat /\ Len(b) \in Nat
  BY LenProperties
<1> DEFINE rest == SubSeq(all, Len(a) + 1, Len(all))
<1>3. /\ rest \in Seq(Call)
      /\ Len(rest) = IF Len(a) + 1 <= Len(all) THEN Len(all) - (Len(a) + 1) + 1 ELSE 0
      /\ \A i \in 1 .. Len(all) - (Len(a) + 1) + 1 : rest[i] = all[(Len(a) + 1) + i - 1]
  <2>1. \A i \in Len(a) + 1 .. Len(all) : all[i] \in Call
    BY <1>1, <1>2
  <2>2. Len(a) + 1 \in Int /\ Len(all) \in Int
    BY <1>1, <1>2
  <2>. QED
    BY <2>1, <2>2, SubSeqProperties
<1> HIDE DEF rest
<1>4. Len(rest) = Len(b)
  BY <1>1, <1>2, <1>3
<1>5. ASSUME NEW i \in 1 .. Len(rest) PROVE rest[i] = b[i]
  <2>1. rest[i] = all[(Len(a) + 1) + i - 1]
    BY <1>1, <1>2, <1>3, <1>4
  <2>2. (Len(a) + 1) + i - 1 = Len(a) + i /\ Len(a) + i \in 1 .. Len(a) + Len(b)
        /\ ~ (Len(a) + i <= Len(a)) /\ (Len(a) + i) - Len(a) = i
    BY <1>2, <1>4
  <2>3. all[Len(a) + i] = b[(Len(a) + i) - Len(a)]
    BY <1>1, <2>2
  <2>. QED
    BY <2>1, <2>2, <2>3
<1>6. rest = b
  BY <1>3, <1>4, <1>5, SeqEqual
<1>. QED
  BY <1>6 DEF rest

\* A line that stands there is edited: its first m characters stay.
LEMMA EditText ==
    ASSUME VgaTypeOK, ShownIs, Standing(Len(Shown), Len(Shown)), UNCHANGED <<screen, cursor>>,
           NEW m \in 0 .. Len(Shown), NEW shown \in Seq(Call), Shown' = shown, m <= Len(shown),
           \A i \in 1 .. m : shown[i] = Shown[i],
           NEW calls, calls = Erasing(Len(Shown) - m) \o SubSeq(shown, m + 1, Len(shown))
    PROVE  Editing(calls)'
<1>1. PICK n \in Nat : n = Len(Shown)
  BY LenProperties DEF ShownIs
<1>2. /\ n \in 0 .. Here /\ AtEdge(Here - n)
      /\ \A i \in 1 .. n : Cell(Here - n + i - 1) = Shown[i]
  BY <1>1 DEF Standing
<1>3. Here' = Here /\ \A place : Cell(place)' = Cell(place)
  BY DEF Here, Cell
<1>4. n \in 0 .. Here' /\ m \in 0 .. n
  BY <1>1, <1>2, <1>3
<1>5. m \in 0 .. Here'
  <2>1. Here \in Nat
    BY HereIs DEF VgaTypeOK
  <2>. QED
    BY <1>1, <1>2, <1>3, <1>4, <2>1
<1>6. \A i \in 1 .. m : Cell(Here - n + i - 1)' = shown[i]
  <2>1. ASSUME NEW i \in 1 .. m PROVE Cell(Here - n + i - 1)' = shown[i]
    <3>1. i \in 1 .. n
      BY <1>1
    <3>2. Cell(Here - n + i - 1) = Shown[i]
      BY <1>2, <3>1
    <3>3. Cell(Here - n + i - 1)' = Cell(Here - n + i - 1)
      BY DEF Here, Cell
    <3>. QED
      BY <3>2, <3>3
  <2>. QED
    BY <2>1
<1>7. AtEdge(Here - n)'
  BY <1>2, <1>3 DEF AtEdge, Roomy, Rows
<1>8. Standing(n, m)'
  BY <1>4, <1>6, <1>7 DEF Standing
<1>9. calls = Remaining(n, m)'
  BY <1>1 DEF Remaining, Erasing
<1>. QED
  BY <1>4, <1>5, <1>8, <1>9 DEF Editing

\* Something else is written, and the line anew.
LEMMA PrintText ==
    ASSUME NEW o \in Seq(Call), o # <<>>, Roomy \/ o[Len(o)] \in {"newline", "clear"},
           NEW shown \in Seq(Call), Shown' = shown, agenda' = o \o shown
    PROVE  Printing' /\ agenda' \in Seq(Call)
<1>1. /\ agenda' \in Seq(Call) /\ Len(agenda') = Len(o) + Len(shown)
      /\ \A i \in 1 .. Len(o) + Len(shown) :
            agenda'[i] = IF i <= Len(o) THEN o[i] ELSE shown[i - Len(o)]
  BY ConcatProperties, Zenon
<1>2. Len(o) \in Nat /\ Len(shown) \in Nat /\ Len(o) # 0
  BY LenProperties, EmptySeq
<1>3. SubSeq(agenda', Len(o) + 1, Len(agenda')) = shown
  BY BehindIs
<1>4. Len(o) \in 1 .. Len(agenda')
  BY <1>1, <1>2
<1>5. agenda'[Len(o)] = o[Len(o)]
  BY <1>1, <1>2
<1>6. PICK m \in 1 .. Len(agenda') : m = Len(o)
  BY <1>4
<1>7. Printing'
  BY <1>3, <1>5, <1>6 DEF Printing, Roomy
<1>. QED
  BY <1>1, <1>7

\* One character more is one more shown, unless nothing is.
LEMMA EchoedAppend ==
    ASSUME call \in Calls, NEW s \in Seq(Chars), NEW c \in Chars
    PROVE  /\ Echoed(Append(s, c)) = Echoed(s) \o Echoed(<<c>>)
           /\ Echoed(<<c>>) \in Seq(Glyphs)
           /\ Len(Echoed(<<c>>)) = IF call.echo = "hidden" THEN 0 ELSE 1
<1>0. Chars \subseteq Glyphs /\ Star \in Glyphs
  BY ConsoleAssumption
<1>1. <<c>> \in Seq(Chars) /\ Len(<<c>>) = 1 /\ Append(s, c) \in Seq(Chars)
      /\ Append(s, c) = s \o <<c>> /\ Len(Append(s, c)) = Len(s) + 1 /\ Len(s) \in Nat
  BY AppendIsConcat, AppendProperties, LenProperties
<1>2. Echoed(<<c>>) \in Seq(Glyphs) /\ Len(Echoed(<<c>>)) = IF call.echo = "hidden" THEN 0 ELSE 1
  BY <1>1, EchoedGlyphs, EchoedLen
<1>3. call.echo \in {"plain", "hidden", "stars"}
  <2>1. CASE call = Shell
    BY <2>1 DEF Shell
  <2>2. CASE call \in [echo : Echoes, use_history : {FALSE}, size : {SMALL}]
    BY <2>2, ConsoleAssumption
  <2>. QED
    BY <2>1, <2>2 DEF Calls
<1>4. CASE call.echo = "plain"
  <2>1. \A t : Echoed(t) = t
    BY <1>4 DEF Echoed
  <2>2. Echoed(Append(s, c)) = Append(s, c) /\ Echoed(s) = s /\ Echoed(<<c>>) = <<c>>
    BY <2>1
  <2>. QED
    BY <1>1, <1>2, <2>2
<1>5. CASE call.echo = "hidden"
  <2>1. \A t : Echoed(t) = <<>>
    BY <1>5 DEF Echoed
  <2>2. <<>> \o <<>> = <<>>
    BY EmptySeq, ConcatEmptySeq
  <2>. QED
    BY <1>2, <2>1, <2>2
<1>6. CASE call.echo = "stars"
  <2>1. ASSUME NEW t \in Seq(Chars)
        PROVE  Echoed(t) \in Seq(Glyphs) /\ Len(Echoed(t)) = Len(t)
               /\ \A i \in 1 .. Len(t) : Echoed(t)[i] = Star
    <3>1. Echoed(t) = [i \in 1 .. Len(t) |-> Star]
      BY <1>6 DEF Echoed
    <3>2. Echoed(t) \in Seq(Glyphs) /\ Len(Echoed(t)) = Len(t)
      BY <1>6, EchoedGlyphs, EchoedLen
    <3>. QED
      BY <3>1, <3>2
  <2> DEFINE a == Echoed(s)
             b == Echoed(<<c>>)
             d == Echoed(Append(s, c))
  <2>2. a \in Seq(Glyphs) /\ Len(a) = Len(s) /\ \A i \in 1 .. Len(s) : a[i] = Star
    BY <2>1
  <2>3. b \in Seq(Glyphs) /\ Len(b) = 1 /\ b[1] = Star
    <3>1. b \in Seq(Glyphs) /\ Len(b) = Len(<<c>>) /\ \A i \in 1 .. Len(<<c>>) : b[i] = Star
      BY <1>1, <2>1
    <3>. QED
      BY <1>1, <3>1
  <2>4. d \in Seq(Glyphs) /\ Len(d) = Len(s) + 1 /\ \A i \in 1 .. Len(s) + 1 : d[i] = Star
    BY <1>1, <2>1
  <2> HIDE DEF a, b, d
  <2>5. /\ a \o b \in Seq(Glyphs) /\ Len(a \o b) = Len(a) + Len(b)
        /\ \A i \in 1 .. Len(a) + Len(b) : (a \o b)[i] = IF i <= Len(a) THEN a[i] ELSE b[i - Len(a)]
    BY <2>2, <2>3, ConcatProperties, ZenonT(30)
  <2>6. ASSUME NEW i \in 1 .. Len(d) PROVE d[i] = (a \o b)[i]
    <3>1. i \in 1 .. Len(s) + 1
      BY <2>4
    <3>2. (a \o b)[i] = IF i <= Len(s) THEN a[i] ELSE b[i - Len(s)]
      BY <2>2, <2>3, <2>5, <3>1
    <3>3. CASE i <= Len(s)
      BY <1>1, <2>2, <2>4, <3>1, <3>2, <3>3
    <3>4. CASE ~ (i <= Len(s))
      <4>1. i - Len(s) = 1
        BY <1>1, <3>1, <3>4
      <4>. QED
        BY <2>3, <2>4, <3>1, <3>2, <3>4, <4>1
    <3>. QED
      BY <3>3, <3>4
  <2>7. Len(d) = Len(a \o b)
    BY <1>1, <2>2, <2>3, <2>4, <2>5
  <2>8. d = a \o b
    BY <2>4, <2>5, <2>6, <2>7, SeqEqual
  <2>. QED
    BY <1>2, <2>8 DEF a, b, d
<1>. QED
  BY <1>3, <1>4, <1>5, <1>6

\* Pieces of a line, put together in any order.
LEMMA GlyphsAssociate == \A s, t, u \in Seq(Glyphs) : (s \o t) \o u = s \o (t \o u)
BY ConcatAssociative

\* With nothing behind it there is nothing to do.
LEMMA NothingLeft ==
    ASSUME NEW s \in Seq(Call), NEW g \in Seq(Call)
    PROVE  /\ Erasing(Len(s) - Len(s)) \o g = g
           /\ SubSeq(s, Len(s) + 1, Len(s)) = <<>>
<1>1. Len(s) \in Nat /\ Len(s) - Len(s) = 0 /\ Len(s) + 1 \in Int /\ Len(s) < Len(s) + 1
  BY LenProperties
<1>2. SubSeq(s, Len(s) + 1, Len(s)) = <<>>
  BY <1>1, SubSeqEmpty
<1>3. ErasingThen(0, g, Erasing(0) \o g)
  BY ErasingIs
<1>. QED
  BY <1>1, <1>2, <1>3 DEF ErasingThen

FirstThen(x, g, calls) ==
    calls \in Seq(Call) /\ calls # <<>> /\ Head(calls) = x /\ Tail(calls) = g

\* A call made before the others.
LEMMA FirstIs ==
    ASSUME NEW x \in Call, NEW g \in Seq(Call), NEW calls, calls = <<x>> \o g
    PROVE  FirstThen(x, g, calls)
<1>1. <<x>> \in Seq(Call) /\ Len(<<x>>) = 1 /\ <<x>>[1] = x
  OBVIOUS
<1> DEFINE e == <<x>>
<1>2. /\ e \o g \in Seq(Call) /\ Len(e \o g) = Len(e) + Len(g)
      /\ \A i \in 1 .. Len(e) + Len(g) : (e \o g)[i] = IF i <= Len(e) THEN e[i] ELSE g[i - Len(e)]
  BY <1>1, ConcatProperties, Zenon
<1>3. e \in Seq(Call) /\ Len(e) = 1 /\ e[1] = x /\ calls = e \o g /\ Len(g) \in Nat
  BY <1>1, LenProperties
<1> HIDE DEF e
<1>4. /\ calls \in Seq(Call) /\ Len(calls) = 1 + Len(g)
      /\ \A i \in 1 .. 1 + Len(g) : calls[i] = IF i <= 1 THEN e[i] ELSE g[i - 1]
  BY <1>2, <1>3
<1>5. calls # <<>>
  BY <1>3, <1>4, EmptySeq
<1>6. /\ Head(calls) = calls[1] /\ Tail(calls) \in Seq(Call) /\ Len(Tail(calls)) = Len(calls) - 1
      /\ \A i \in 1 .. Len(Tail(calls)) : Tail(calls)[i] = calls[i + 1]
  BY <1>4, <1>5, HeadTailProperties
<1>7. calls[1] = x
  BY <1>3, <1>4
<1>8. Len(Tail(calls)) = Len(g)
  BY <1>3, <1>4, <1>6
<1>9. ASSUME NEW i \in 1 .. Len(Tail(calls)) PROVE Tail(calls)[i] = g[i]
  <2>1. i + 1 \in 1 .. 1 + Len(g) /\ ~ (i + 1 <= 1) /\ (i + 1) - 1 = i
    BY <1>3, <1>8
  <2>2. calls[i + 1] = g[(i + 1) - 1]
    BY <1>4, <2>1
  <2>. QED
    BY <1>6, <2>1, <2>2
<1>10. Tail(calls) = g
  BY <1>6, <1>8, <1>9, SeqEqual
<1>. QED
  BY <1>4, <1>5, <1>6, <1>7, <1>10 DEF FirstThen

\* The state in which the session takes a key.
Waiting ==
    /\ VgaTypeOK /\ EditorInv /\ BlankBehind /\ agenda = <<>>
    /\ ShownIs /\ Standing(Len(Shown), Len(Shown))
    /\ ShownIs' /\ UNCHANGED <<screen, cursor>>

\* A line of the screen that is edited or scrolled.
LEMMA EditedText ==
    ASSUME BlankBehind, UNCHANGED <<screen, cursor>>, agenda' \in Seq(Call),
           NEW calls, Editing(calls)',
           \/ agenda' = calls
           \/ agenda' # <<>> /\ Head(agenda') \in Scrolls /\ Tail(agenda') = calls
    PROVE  TextInv'
<1>1. BlankBehind'
  BY DEF BlankBehind, Here, Cell, Places
<1>2. CASE agenda' = calls
  <2>1. Editing(agenda)'
    BY <1>2 DEF Editing
  <2>. QED
    BY <1>1, <2>1 DEF TextInv
<1>3. CASE agenda' # <<>> /\ Head(agenda') \in Scrolls /\ Tail(agenda') = calls
  <2>1. Editing(Tail(agenda))'
    BY <1>3 DEF Editing
  <2>2. Scrolling'
    BY <1>3, <2>1 DEF Scrolling
  <2>. QED
    BY <1>1, <2>2 DEF TextInv
<1>. QED
  BY <1>2, <1>3

\* A character typed.
LEMMA TypeText == ASSUME Waiting, NEW c \in Chars, Type(c) PROVE TextInv'
<1>0. /\ VgaTypeOK /\ BlankBehind /\ ShownIs /\ Standing(Len(Shown), Len(Shown))
      /\ UNCHANGED <<screen, cursor>>
      /\ call \in Calls /\ out \in Seq(Chars)
  BY LineIs DEF Waiting, EditorInv, ConsoleTypeOK
<1>1. out' = Append(out, c) /\ agenda' = <<"bottom">> \o Echoed(<<c>>) /\ lead' = lead /\ call' = call
  BY DEF Type
<1> DEFINE g == Echoed(<<c>>)
           shown == lead \o Echoed(Append(out, c))
<1>2. Shown' = shown
  <2>1. Echoed(out)' = Echoed(Append(out, c))
    BY <1>1 DEF Echoed
  <2>. QED
    BY <1>1, <2>1 DEF Shown
<1>3. Echoed(Append(out, c)) = Echoed(out) \o g /\ g \in Seq(Glyphs)
  BY <1>0, EchoedAppend
<1>4. shown = Shown \o g
  <2>1. lead \in Seq(Glyphs) /\ Echoed(out) \in Seq(Glyphs)
    BY <1>0 DEF ShownIs
  <2>2. PICK e \in Seq(Glyphs) : e = Echoed(out)
    BY <2>1
  <2> HIDE DEF g
  <2>3. (lead \o e) \o g = lead \o (e \o g)
    BY <1>3, <2>1, <2>2, GlyphsAssociate
  <2>. QED
    BY <1>3, <2>2, <2>3 DEF Shown
<1>5. Glyphs \subseteq Call /\ "bottom" \in Call /\ "bottom" \in Scrolls
  BY DEF Call, Out, Scrolls
<1>6. g \in Seq(Call) /\ Shown \in Seq(Call)
  BY <1>0, <1>3, <1>5, SeqMonotonic DEF ShownIs
<1> HIDE DEF g, shown
<1>7. /\ shown \in Seq(Call) /\ Len(shown) = Len(Shown) + Len(g)
      /\ \A i \in 1 .. Len(Shown) + Len(g) : shown[i] = IF i <= Len(Shown) THEN Shown[i] ELSE g[i - Len(Shown)]
  BY <1>4, <1>6, ConcatProperties, Zenon
<1>8. Len(Shown) \in Nat /\ Len(g) \in Nat
  BY <1>6, LenProperties
<1>9. SubSeq(shown, Len(Shown) + 1, Len(shown)) = g
  BY <1>4, <1>6, BehindIs
<1>10. Erasing(Len(Shown) - Len(Shown)) \o g = g
  BY <1>6, NothingLeft
<1>11. \A i \in 1 .. Len(Shown) : shown[i] = Shown[i]
  BY <1>7, <1>8
<1>12. Len(Shown) \in 0 .. Len(Shown) /\ Len(Shown) <= Len(shown)
  BY <1>7, <1>8
<1>13. FirstThen("bottom", g, agenda')
  BY <1>1, <1>5, <1>6, FirstIs DEF g
<1>14. PICK calls : calls = g
  OBVIOUS
<1>15. Editing(calls)'
  <2>2. calls = Erasing(Len(Shown) - Len(Shown)) \o SubSeq(shown, Len(Shown) + 1, Len(shown))
    BY <1>9, <1>10, <1>14
  <2>. QED
    BY <1>0, <1>2, <1>7, <1>11, <1>12, <2>2, EditText
<1>. QED
  BY <1>0, <1>5, <1>13, <1>14, <1>15, EditedText DEF FirstThen

\* A line drawn anew.
LEMMA RedrawText ==
    ASSUME Waiting, call' = call, lead' = lead, NEW line \in Seq(Chars), out' = line,
           redraw(drawn, line)
    PROVE  TextInv'
<1>0. /\ VgaTypeOK /\ BlankBehind /\ ShownIs /\ Standing(Len(Shown), Len(Shown))
      /\ UNCHANGED <<screen, cursor>>
      /\ call \in Calls
  BY DEF Waiting, EditorInv, ConsoleTypeOK
<1>1. PICK e \in Seq(Glyphs) : e = Echoed(line)
  BY <1>0, EchoedGlyphs
<1>2. PICK l \in Seq(Glyphs) : l = lead
  BY <1>0 DEF ShownIs
<1>3. PICK k \in Nat : k = drawn
  BY <1>0 DEF ShownIs
<1>4. agenda' = Erasing(k) \o e
  BY <1>1, <1>3, Zenon DEF redraw, Erasing
<1>5. Shown' = l \o e
  <2>1. Echoed(out)' = Echoed(line)
    BY DEF Echoed
  <2>. QED
    BY <1>1, <1>2, <2>1 DEF Shown
<1>6. Glyphs \subseteq Call
  BY DEF Call, Out
<1>7. e \in Seq(Call) /\ l \in Seq(Call) /\ Echoed(out) \in Seq(Call)
  BY <1>0, <1>6, SeqMonotonic DEF ShownIs
<1>8. PICK f \in Seq(Call) : f = Echoed(out)
  BY <1>7
<1>9. PICK shown : shown = l \o e
  OBVIOUS
<1>10. /\ shown \in Seq(Call) /\ Len(shown) = Len(l) + Len(e)
       /\ \A i \in 1 .. Len(l) + Len(e) : shown[i] = IF i <= Len(l) THEN l[i] ELSE e[i - Len(l)]
  BY <1>7, <1>9, ConcatProperties, Zenon
<1>11. /\ Shown \in Seq(Call) /\ Len(Shown) = Len(l) + k
       /\ \A i \in 1 .. Len(l) + Len(f) : Shown[i] = IF i <= Len(l) THEN l[i] ELSE f[i - Len(l)]
  <2>1. Shown = l \o f
    BY <1>2, <1>8 DEF Shown
  <2>2. \A i \in 1 .. Len(l) + Len(f) : (l \o f)[i] = IF i <= Len(l) THEN l[i] ELSE f[i - Len(l)]
    BY <1>7, <1>8, ConcatProperties, Zenon
  <2>. QED
    BY <1>0, <1>2, <1>3, <2>1, <2>2 DEF ShownIs
<1>12. Len(l) \in Nat /\ Len(e) \in Nat /\ Len(f) \in Nat
  BY <1>7, LenProperties
<1>13. SubSeq(shown, Len(l) + 1, Len(shown)) = e
  BY <1>7, <1>9, BehindIs
<1>14. Len(l) \in 0 .. Len(Shown) /\ Len(l) <= Len(shown) /\ Len(Shown) - Len(l) = k
  BY <1>10, <1>11, <1>12
<1>15. \A i \in 1 .. Len(l) : shown[i] = Shown[i]
  BY <1>10, <1>11, <1>12
<1>16. PICK calls : calls = Erasing(k) \o e
  OBVIOUS
<1>17. ErasingThen(k, e, calls)
  BY <1>7, <1>16, ErasingIs
<1>18. calls = Erasing(Len(Shown) - Len(l)) \o SubSeq(shown, Len(l) + 1, Len(shown))
  BY <1>13, <1>14, <1>16
<1>19. Editing(calls)'
  BY <1>0, <1>5, <1>9, <1>10, <1>14, <1>15, <1>18, EditText
<1>. QED
  BY <1>0, <1>4, <1>16, <1>17, <1>19, EditedText DEF ErasingThen

\* The last character taken back.
LEMMA BackspaceText == ASSUME Waiting, Backspace PROVE TextInv'
<1>0. /\ VgaTypeOK /\ BlankBehind /\ ShownIs /\ Standing(Len(Shown), Len(Shown))
      /\ UNCHANGED <<screen, cursor>>
      /\ call \in Calls /\ out \in Seq(Chars) /\ agenda = <<>>
  BY LineIs DEF Waiting, EditorInv, ConsoleTypeOK
<1>1. /\ out # <<>> /\ out' = SubSeq(out, 1, Len(out) - 1) /\ lead' = lead /\ call' = call
      /\ agenda' = IF call.echo = "hidden" THEN <<>> ELSE <<"backspace">>
  BY <1>0 DEF Backspace, Front
<1>2. PICK s \in Seq(Chars), c \in Chars : out = Append(s, c) /\ out' = s
  <2>1. PICK s \in Seq(Chars), c \in Chars : out = Append(s, c)
    BY <1>0, <1>1, SequenceEmptyOrAppend
  <2>2. /\ Len(out) = Len(s) + 1 /\ Len(s) \in Nat
        /\ \A i \in 1 .. Len(s) : out[i] = s[i]
    BY <2>1, AppendProperties, LenProperties
  <2>3. Len(out) - 1 = Len(s)
    BY <2>2
  <2>4. SubSeq(out, 1, Len(s)) = s
    <3>1. /\ SubSeq(out, 1, Len(s)) \in Seq(Chars) /\ Len(SubSeq(out, 1, Len(s))) = Len(s)
          /\ \A i \in 1 .. Len(s) : SubSeq(out, 1, Len(s))[i] = out[i]
      BY <1>0, <2>2
    <3>. QED
      BY <2>2, <3>1, SeqEqual
  <2>. QED
    BY <1>1, <2>1, <2>3, <2>4
<1>3. PICK g \in Seq(Glyphs) : /\ g = Echoed(<<c>>) /\ Echoed(out) = Echoed(s) \o g
                               /\ Len(g) = IF call.echo = "hidden" THEN 0 ELSE 1
  BY <1>0, <1>2, EchoedAppend
<1>4. PICK shown : shown = lead \o Echoed(s)
  OBVIOUS
<1>5. Shown' = shown
  <2>1. Echoed(out)' = Echoed(s)
    BY <1>1, <1>2 DEF Echoed
  <2>. QED
    BY <1>1, <1>4, <2>1 DEF Shown
<1>6. Glyphs \subseteq Call
  BY DEF Call, Out
<1>7. lead \in Seq(Glyphs) /\ Echoed(s) \in Seq(Glyphs) /\ shown \in Seq(Glyphs)
  BY <1>0, <1>4, EchoedGlyphs, ConcatProperties DEF ShownIs
<1>8. Shown = shown \o g
  <2>1. Shown = lead \o (Echoed(s) \o g)
    BY <1>3 DEF Shown
  <2>2. PICK e \in Seq(Glyphs) : e = Echoed(s)
    BY <1>7
  <2>3. (lead \o e) \o g = lead \o (e \o g)
    <3>1. lead \in Seq(Glyphs)
      BY <1>7
    <3>. QED
      BY <3>1, GlyphsAssociate, Zenon
  <2>. QED
    BY <1>4, <2>1, <2>2, <2>3
<1>9. shown \in Seq(Call) /\ g \in Seq(Call)
  BY <1>6, <1>7, SeqMonotonic
<1>10. /\ Len(Shown) = Len(shown) + Len(g)
       /\ \A i \in 1 .. Len(shown) + Len(g) : Shown[i] = IF i <= Len(shown) THEN shown[i] ELSE g[i - Len(shown)]
  BY <1>8, <1>9, ConcatProperties, Zenon
<1>11. Len(shown) \in Nat /\ Len(g) \in Nat
  BY <1>9, LenProperties
<1>12. /\ Len(shown) \in 0 .. Len(Shown) /\ Len(Shown) - Len(shown) = Len(g)
       /\ \A i \in 1 .. Len(shown) : shown[i] = Shown[i]
  BY <1>10, <1>11
<1>13. SubSeq(shown, Len(shown) + 1, Len(shown)) = <<>>
  BY <1>9, NothingLeft
<1>14. PICK calls : calls = Erasing(Len(g)) \o <<>>
  OBVIOUS
<1>15. calls = Erasing(Len(Shown) - Len(shown)) \o SubSeq(shown, Len(shown) + 1, Len(shown))
  BY <1>12, <1>13, <1>14
<1>16. Editing(calls)'
  <2>1. PICK m \in 0 .. Len(Shown) : m = Len(shown)
    BY <1>12
  <2>2. m <= Len(shown) /\ \A i \in 1 .. m : shown[i] = Shown[i]
    BY <1>11, <1>12, <2>1
  <2>3. calls = Erasing(Len(Shown) - m) \o SubSeq(shown, m + 1, Len(shown))
    BY <1>15, <2>1
  <2>. QED
    BY <1>0, <1>5, <1>9, <2>2, <2>3, EditText
<1>17. agenda' = calls /\ calls \in Seq(Call)
  <2>1. <<>> \in Seq(Call)
    BY EmptySeq
  <2>2. ErasingThen(Len(g), <<>>, calls) /\ ErasingThen(0, <<>>, Erasing(0) \o <<>>)
    BY <1>11, <1>14, <2>1, ErasingIs
  <2>3. calls \in Seq(Call)
    BY <2>2 DEF ErasingThen
  <2>4. CASE Len(g) = 0
    <3>1. calls = <<>>
      BY <2>2, <2>4 DEF ErasingThen
    <3>2. call.echo = "hidden"
      <4>1. call.echo # "hidden" => Len(g) = 1
        BY <1>3
      <4>. QED
        BY <2>4, <4>1
    <3>. QED
      BY <1>1, <2>3, <3>1, <3>2
  <2>5. CASE Len(g) = 1
    <3>1. calls # <<>> /\ Head(calls) = "backspace" /\ Tail(calls) = Erasing(0) \o <<>>
      BY <2>2, <2>5 DEF ErasingThen
    <3>2. Tail(calls) = <<>>
      BY <2>2, <3>1 DEF ErasingThen
    <3>3. Len(calls) = 1 /\ calls[1] = "backspace"
      <4>1. Len(Tail(calls)) = Len(calls) - 1 /\ Len(calls) \in Nat /\ Head(calls) = calls[1]
        BY <2>3, <3>1, HeadTailProperties, LenProperties
      <4>2. Len(<<>>) = 0
        OBVIOUS
      <4>3. Len(Tail(calls)) = 0
        BY <3>2, <4>2
      <4>4. Len(calls) = 1
        BY <4>1, <4>3
      <4>. QED
        BY <3>1, <4>1, <4>4
    <3>4. calls = <<"backspace">>
      <4>1. <<"backspace">> \in Seq(Call) /\ Len(<<"backspace">>) = 1
            /\ <<"backspace">>[1] = "backspace"
        BY DEF Call, Out
      <4>2. \A i \in 1 .. Len(calls) : i = 1
        BY <3>3
      <4>. QED
        BY <2>3, <3>3, <4>1, <4>2, SeqEqual
    <3>5. call.echo # "hidden"
      <4>1. ASSUME call.echo = "hidden" PROVE FALSE
        <5>1. Len(g) = 0
          BY <1>3, <4>1
        <5>. QED
          BY <2>5, <5>1
      <4>. QED
        BY <4>1
    <3>. QED
      BY <1>1, <2>3, <3>4, <3>5
  <2>. QED
    BY <1>3, <2>4, <2>5
<1>. QED
  BY <1>0, <1>16, <1>17, EditedText

\* The view scrolled, and the line left alone.
LEMMA ScrollText == ASSUME Waiting, Scroll PROVE TextInv'
<1>0. /\ VgaTypeOK /\ BlankBehind /\ ShownIs /\ Standing(Len(Shown), Len(Shown))
      /\ UNCHANGED <<screen, cursor>>
  BY DEF Waiting
<1>1. PICK x \in Scrolls : agenda' = <<x>>
  BY DEF Scroll, Scrolls
<1>2. lead' = lead /\ out' = out /\ call' = call
  BY DEF Scroll, editor
<1>3. PICK shown \in Seq(Call) : shown = Shown
  BY <1>0 DEF ShownIs
<1>4. Shown' = shown
  BY <1>2, <1>3 DEF Shown, Echoed
<1>5. PICK calls : calls = <<>>
  OBVIOUS
<1>6. <<>> \in Seq(Call) /\ Len(shown) \in Nat
  BY EmptySeq, LenProperties
<1>7. calls = Erasing(Len(Shown) - Len(Shown)) \o SubSeq(shown, Len(Shown) + 1, Len(shown))
  BY <1>3, <1>5, <1>6, NothingLeft
<1>8. Len(Shown) \in 0 .. Len(Shown) /\ Len(Shown) <= Len(shown)
      /\ \A i \in 1 .. Len(Shown) : shown[i] = Shown[i]
  BY <1>3, <1>6
<1>9. Editing(calls)'
  BY <1>0, <1>4, <1>7, <1>8, EditText
<1>10. x \in Call /\ <<x>> \in Seq(Call) /\ <<x>> = <<x>> \o <<>>
  <2>1. x \in Call
    BY DEF Call
  <2>2. <<x>> \in Seq(Call)
    BY <2>1
  <2>. QED
    BY <2>1, <2>2, ConcatEmptySeq
<1>11. FirstThen(x, <<>>, agenda')
  BY <1>1, <1>6, <1>10, FirstIs
<1>. QED
  BY <1>0, <1>5, <1>9, <1>11, EditedText DEF FirstThen

\* The screen cleared.
LEMMA CtrlLText == ASSUME Waiting, CtrlL PROVE TextInv'
<1>0. BlankBehind /\ ShownIs /\ ShownIs' /\ UNCHANGED <<screen, cursor>>
  BY DEF Waiting
<1>1. agenda' = <<"clear">> \o lead' \o Echoed(out) /\ out' = out /\ call' = call
  BY DEF CtrlL
<1>2. PICK l, e : l = lead' /\ e = Echoed(out)
  OBVIOUS
<1>3. Echoed(out)' = e
  BY <1>1, <1>2 DEF Echoed
<1>4. l \in Seq(Glyphs) /\ e \in Seq(Glyphs)
  BY <1>0, <1>2, <1>3 DEF ShownIs
<1>5. Glyphs \subseteq Call /\ "clear" \in Call
  BY DEF Call, Out
<1>6. l \in Seq(Call) /\ e \in Seq(Call) /\ l \o e \in Seq(Call)
  BY <1>4, <1>5, SeqMonotonic, ConcatProperties
<1>7. Shown' = l \o e
  BY <1>2, <1>3 DEF Shown
<1>8. <<"clear">> \in Seq(Call) /\ <<"clear">> # <<>> /\ <<"clear">>[Len(<<"clear">>)] = "clear"
  BY <1>5
<1>9. agenda' = <<"clear">> \o (l \o e)
  <2>1. agenda' = (<<"clear">> \o l) \o e
    BY <1>1, <1>2
  <2>. QED
    BY <1>6, <1>8, <2>1, ConcatAssociative
<1>10. Printing' /\ agenda' \in Seq(Call)
  BY <1>6, <1>7, <1>8, <1>9, PrintText
<1>11. BlankBehind'
  BY <1>0 DEF BlankBehind, Here, Cell, Places
<1>. QED
  BY <1>10, <1>11 DEF TextInv

EndsAtEdge(o) == o \in Seq(Call) /\ o # <<>> /\ (Roomy \/ o[Len(o)] \in {"newline", "clear"})

\* What was written ends where a line may begin, also when more such output
\* follows, or none.
LEMMA EdgeKept ==
    ASSUME NEW o, EndsAtEdge(o), NEW output \in Outputs
    PROVE  EndsAtEdge(o \o output)
<1>1. o \in Seq(Call) /\ o # <<>> /\ (Roomy \/ o[Len(o)] \in {"newline", "clear"})
  BY DEF EndsAtEdge
<1>2. output \in Seq(Call)
  <2>1. Glyphs \union {"newline", "backspace", "clear"} \subseteq Call
    BY DEF Call, Out
  <2>2. output \in Seq(Glyphs \union {"newline", "backspace", "clear"})
    BY OutputsAssumption
  <2>. QED
    BY <2>1, <2>2, SeqMonotonic
<1>3. /\ o \o output \in Seq(Call) /\ Len(o \o output) = Len(o) + Len(output)
      /\ \A i \in 1 .. Len(o) + Len(output) :
            (o \o output)[i] = IF i <= Len(o) THEN o[i] ELSE output[i - Len(o)]
  BY <1>1, <1>2, ConcatProperties, Zenon
<1>4. Len(o) \in Nat /\ Len(o) # 0 /\ Len(output) \in Nat
  BY <1>1, <1>2, EmptySeq, LenProperties
<1>5. o \o output # <<>>
  <2>1. Len(o \o output) # 0 /\ Len(<<>>) = 0
    BY <1>3, <1>4
  <2>. QED
    BY <2>1
<1>6. CASE Roomy
  BY <1>3, <1>5, <1>6 DEF EndsAtEdge
<1>7. CASE ~ Roomy /\ output = <<>>
  <2>1. o \o output = o
    BY <1>1, <1>7, ConcatEmptySeq
  <2>. QED
    BY <2>1
<1>8. CASE ~ Roomy /\ output # <<>>
  <2>1. output[Len(output)] \in {"newline", "clear"}
    BY <1>8, OutputsAssumption DEF Roomy
  <2>2. Len(output) # 0
    BY <1>2, <1>8, EmptySeq
  <2>3. (o \o output)[Len(o) + Len(output)] = output[Len(output)]
    <3> DEFINE i == Len(o) + Len(output)
    <3>1. i \in 1 .. Len(o) + Len(output) /\ ~ (i <= Len(o)) /\ i - Len(o) = Len(output)
      BY <1>4, <2>2
    <3> HIDE DEF i
    <3>2. (o \o output)[i] = IF i <= Len(o) THEN o[i] ELSE output[i - Len(o)]
      BY <1>3, <3>1
    <3>. QED
      BY <3>1, <3>2 DEF i
  <2>4. (o \o output)[Len(o \o output)] \in {"newline", "clear"}
    BY <1>3, <2>1, <2>3
  <2>. QED
    BY <1>3, <1>5, <2>4 DEF EndsAtEdge
<1>. QED
  BY <1>6, <1>7, <1>8

\* The answer is handed over and the next line asked for.
LEMMA NextCallText ==
    ASSUME Waiting, NEW ending, ending \in {<<"newline">>, Cancel \o <<"newline">>},
           NEW outputs \in SUBSET (Outputs \union {<<>>}), NextCall(ending, outputs)
    PROVE  TextInv'
<1>0. BlankBehind /\ ShownIs' /\ UNCHANGED <<screen, cursor>>
  BY DEF Waiting
<1>1. PICK output \in Outputs \union {<<>>} :
            agenda' = <<"bottom">> \o ending \o output \o Prompt
  BY DEF NextCall
<1>2. lead' = Prompt /\ out' = <<>> /\ call' \in Calls
  BY DEF NextCall
<1>3. Prompt \in Seq(Call) /\ Cancel \in Seq(Call) /\ Prompt \in Seq(Glyphs)
  <2>1. Glyphs \subseteq Call
    BY DEF Call, Out
  <2>. QED
    BY <2>1, OutputsAssumption, SeqMonotonic
<1>4. Shown' = Prompt
  <2>1. Len(Echoed(out)') = 0 /\ Echoed(out)' \in Seq(Glyphs)
    <3>1. drawn' = 0
      BY DEF NextCall
    <3>. QED
      BY <1>0, <3>1 DEF ShownIs
  <2>2. Echoed(out)' = <<>>
    BY <2>1, EmptySeq
  <2>3. Shown' = Prompt \o <<>>
    BY <1>2, <2>2 DEF Shown
  <2>. QED
    BY <1>3, <2>3, ConcatEmptySeq
<1>5. EndsAtEdge(<<"bottom">> \o ending)
  <2>1. <<"newline">> \in Seq(Call) /\ Len(<<"newline">>) = 1 /\ <<"newline">>[1] = "newline"
        /\ "bottom" \in Call
    BY DEF Call, Out, Scrolls
  <2>2. ASSUME NEW a \in Seq(Call), NEW b, b = a \o <<"newline">>
        PROVE  b \in Seq(Call) /\ Len(b) \in Nat /\ Len(b) # 0 /\ b[Len(b)] = "newline"
    <3>1. b = Append(a, "newline")
      BY <2>1, <2>2, AppendIsConcat
    <3>2. b \in Seq(Call) /\ Len(b) = Len(a) + 1 /\ b[Len(a) + 1] = "newline" /\ Len(a) \in Nat
      BY <2>1, <3>1, AppendProperties, LenProperties
    <3>. QED
      BY <3>2
  <2>3. <<"bottom">> \in Seq(Call) /\ <<"bottom">> \o Cancel \in Seq(Call)
    BY <1>3, <2>1, ConcatProperties
  <2>4. \E a \in Seq(Call) : <<"bottom">> \o ending = a \o <<"newline">>
    <3>1. CASE ending = <<"newline">>
      BY <2>3, <3>1
    <3>2. CASE ending = Cancel \o <<"newline">>
      <4>1. <<"bottom">> \o ending = (<<"bottom">> \o Cancel) \o <<"newline">>
        BY <1>3, <2>1, <2>3, <3>2, ConcatAssociative
      <4>. QED
        BY <2>3, <4>1
    <3>. QED
      BY <3>1, <3>2
  <2>5. PICK b : b = <<"bottom">> \o ending
    OBVIOUS
  <2>6. b \in Seq(Call) /\ Len(b) \in Nat /\ Len(b) # 0 /\ b[Len(b)] = "newline"
    BY <2>2, <2>4, <2>5
  <2>7. b # <<>>
    <3>1. Len(<<>>) = 0
      OBVIOUS
    <3>. QED
      BY <2>6, <3>1
  <2>. QED
    BY <2>5, <2>6, <2>7 DEF EndsAtEdge
<1>6. PICK o : o = <<"bottom">> \o ending \o output
  OBVIOUS
<1>7. EndsAtEdge(o)
  <2>1. PICK b : b = <<"bottom">> \o ending
    OBVIOUS
  <2>2. o = b \o output /\ EndsAtEdge(b)
    BY <1>5, <1>6, <2>1
  <2>3. CASE output \in Outputs
    BY <2>2, <2>3, EdgeKept
  <2>4. CASE output = <<>>
    <3>1. b \in Seq(Call)
      BY <2>2 DEF EndsAtEdge
    <3>2. b \o <<>> = b
      BY <3>1, ConcatEmptySeq
    <3>. QED
      BY <2>2, <2>4, <3>2
  <2>. QED
    BY <2>3, <2>4
<1>8. agenda' = o \o Prompt
  BY <1>1, <1>6
<1>9. Printing' /\ agenda' \in Seq(Call)
  BY <1>3, <1>4, <1>7, <1>8, PrintText DEF EndsAtEdge
<1>10. BlankBehind'
  BY <1>0 DEF BlankBehind, Here, Cell, Places
<1>. QED
  BY <1>9, <1>10 DEF TextInv

\* The keys, one by one.
LEMMA KeyText ==
    ASSUME VgaTypeOK, EditorInv, EditorInv', TextInv, Key
    PROVE  TextInv'
<1>1. Waiting
  <2>1. agenda = <<>> /\ UNCHANGED <<screen, cursor>>
    BY DEF Key, AtRest, vga
  <2>2. ShownIs
    BY ShownFits
  <2>3. ShownIs'
    <3>1. (EditorInv => ShownIs)'
      BY ShownFits, PTL
    <3>. QED
      BY <3>1
  <2>4. Standing(Len(Shown), Len(Shown))
    BY <2>1, <2>2, LineStands
  <2>. QED
    BY <2>1, <2>2, <2>3, <2>4 DEF Waiting, TextInv
<1>2. /\ call \in Calls /\ out \in Seq(Chars) /\ out' \in Seq(Chars)
      /\ browse \in 0 .. history_total
  BY LineIs DEF EditorInv, ConsoleTypeOK
<1>3. CASE Enter
  <2>1. \E outputs \in SUBSET (Outputs \union {<<>>}) : NextCall(<<"newline">>, outputs)
    <3>1. CASE NextCall(<<"newline">>, Outputs)
      BY <3>1
    <3>2. CASE NextCall(<<"newline">>, IF call = Shell THEN {<<>>} ELSE Outputs)
      BY <3>2
    <3>. QED
      BY <1>3, <3>1, <3>2 DEF Enter
  <2>. QED
    BY <1>1, <2>1, NextCallText
<1>4. CASE CtrlC
  <2>1. \E outputs \in SUBSET (Outputs \union {<<>>}) : NextCall(Cancel \o <<"newline">>, outputs)
    BY <1>4 DEF CtrlC
  <2>. QED
    BY <1>1, <2>1, NextCallText
<1>5. CASE CtrlU
  <2>1. call' = call /\ lead' = lead /\ out' = <<>> /\ redraw(drawn, <<>>)
    BY <1>5 DEF CtrlU
  <2>2. <<>> \in Seq(Chars)
    BY EmptySeq
  <2>. QED
    BY <1>1, <2>1, <2>2, RedrawText
<1>6. ASSUME NEW target, Browse(target) PROVE TextInv'
  <2>1. call' = call /\ lead' = lead /\ redraw(drawn, out')
    BY <1>6 DEF Browse
  <2>2. PICK line \in Seq(Chars) : line = out'
    BY <1>2
  <2>3. redraw(drawn, line)
    BY <2>1, <2>2
  <2>. QED
    BY <1>1, <2>1, <2>2, <2>3, RedrawText
<1>. QED
  BY <1>1, <1>3, <1>4, <1>5, <1>6, BackspaceText, CtrlLText, ScrollText, TypeText DEF Key

\* The prompt is about to be written on a blank screen.
LEMMA TextInit == ASSUME VgaInit, ConsoleInit PROVE TextInv
<1>1. ShownIs /\ VgaTypeOK
  BY EditorInvInit, VgaInvInit, ShownFits DEF VgaInv
<1>2. call \in Calls /\ out = <<>> /\ agenda = Prompt /\ lead = Prompt
  BY DEF ConsoleInit
<1>3. agenda = Shown /\ agenda \in Seq(Call)
  <2>1. Echoed(out) \in Seq(Glyphs) /\ Len(Echoed(out)) = 0
    <3>1. Echoed(out) \in Seq(Glyphs) /\ Len(Echoed(out)) = drawn
      BY <1>1 DEF ShownIs
    <3>. QED
      BY <3>1 DEF ConsoleInit
  <2>2. Echoed(out) = <<>>
    BY <2>1, EmptySeq
  <2>3. Shown = Prompt \o <<>>
    BY <1>2, <2>2 DEF Shown
  <2>4. Shown = Prompt
    BY <2>3, OutputsAssumption, ConcatEmptySeq
  <2>. QED
    BY <1>1, <1>2, <2>4 DEF ShownIs
<1>4. cursor = <<0, 0>> /\ cursor \in Rows \X Cols
  BY <1>1 DEF VgaInit, VgaTypeOK
<1>5. Here = 0 * VGA_WIDTH /\ 0 \in Rows
  BY <1>4, Sizes DEF Here
<1>6. Editing(agenda)
  BY <1>1, <1>3, <1>4, <1>5, LineBegins DEF AtEdge
<1>7. BlankBehind
  <2> SUFFICES ASSUME NEW place \in Here .. Places - 1 PROVE Cell(place) = " "
    BY DEF BlankBehind
  <2>1. place \in 0 .. Places - 1
    BY <1>5, Sizes
  <2>2. PICK r \in Rows, k \in Cols : InPlace(place, r, k)
    BY <2>1, PlaceFound
  <2>. QED
    BY <2>2 DEF InPlace, VgaInit, BlankLine
<1>. QED
  BY <1>3, <1>6, <1>7 DEF TextInv

\* Painting and the mouse write no text.
LEMMA TextKept ==
    ASSUME TextInv, screen' = screen, cursor' = cursor, UNCHANGED console
    PROVE  TextInv'
<1>1. UNCHANGED <<screen, cursor, lead, out, call>> /\ agenda' = agenda
  BY DEF console, editor
<1>2. PICK calls : calls = agenda
  OBVIOUS
<1>3. agenda' = calls /\ (Scrolling => Editing(Tail(calls)))
  BY <1>1, <1>2 DEF Scrolling
<1>4. BlankBehind' /\ agenda' \in Seq(Call)
  BY <1>1 DEF TextInv, BlankBehind, Here, Cell, Places
<1>5. CASE Editing(agenda)
  <2>1. Editing(calls)'
    BY <1>1, <1>2, <1>5, StandingKept
  <2>. QED
    BY <1>3, <1>4, <2>1 DEF TextInv, Editing
<1>6. CASE Scrolling
  <2>1. Editing(Tail(calls))'
    BY <1>1, <1>3, <1>6, StandingKept
  <2>2. agenda' # <<>> /\ Head(agenda') \in Scrolls
    BY <1>1, <1>6 DEF Scrolling
  <2>. QED
    BY <1>3, <1>4, <2>1, <2>2 DEF TextInv, Scrolling, Editing
<1>7. CASE Printing
  <2>1. Shown' = Shown
    BY <1>1 DEF Shown, Echoed
  <2>2. Printing'
    BY <1>1, <1>7, <2>1 DEF Printing, Roomy
  <2>. QED
    BY <1>4, <2>2 DEF TextInv
<1>. QED
  BY <1>5, <1>6, <1>7 DEF TextInv

\* With the agenda done, the screen is the line.
LEMMA TextShows == VgaTypeOK /\ EditorInv /\ TextInv => ScreenIsLine
<1> SUFFICES ASSUME VgaTypeOK, EditorInv, TextInv, agenda = <<>> PROVE ScreenIsLine
  BY DEF ScreenIsLine, AtRest
<1>1. ShownIs
  BY ShownFits
<1>2. Standing(Len(Shown), Len(Shown)) /\ BlankBehind
  BY <1>1, LineStands DEF TextInv
<1>3. drawn = Len(Echoed(out)) /\ Shown = lead \o Echoed(out)
  BY <1>1 DEF ShownIs, Shown
<1>4. Here = cursor[1] * VGA_WIDTH + cursor[2] /\ Here \in Nat
  BY HereIs DEF VgaTypeOK
<1>5. Shown \in Seq(Call) /\ Len(Shown) \in Nat /\ DOMAIN Shown = 1 .. Len(Shown)
  BY <1>1, LenProperties DEF ShownIs
<1>6. Here >= Len(Shown) /\ \A i \in DOMAIN Shown : Cell(Here - Len(Shown) + i - 1) = Shown[i]
  BY <1>2, <1>4, <1>5 DEF Standing
<1>7. \A place \in Here .. VGA_WIDTH * VGA_HEIGHT - 1 : Cell(place) = " "
  BY <1>2 DEF BlankBehind, Places
<1>. QED
  BY <1>3, <1>6, <1>7, Zenon DEF ScreenIsLine, Shown, Here

\* For a screen, a buffer and a history of any size, the session waits for a
\* key with the prompt and the line that Enter will hand over before the cursor
\* and nothing behind it, whatever was typed, erased, browsed, discarded or
\* cleared before (console.c:55-171; vga.c:155-206).
THEOREM LineOnScreen == Spec => []ScreenIsLine
<1> DEFINE Inv == VgaInv /\ EditorInv /\ TextInv
<1>1. Init => Inv
  BY VgaInvInit, EditorInvInit, TextInit DEF Init
<1>2. ASSUME Inv, [Next]_vars PROVE Inv'
  <2>1. VgaInv' /\ EditorInv' /\ VgaTypeOK /\ VgaTypeOK'
    BY <1>2, VgaInvKept, EditorKept DEF VgaInv
  <2>2. CASE Key
    BY <1>2, <2>1, <2>2, KeyText
  <2>3. CASE Write
    BY <1>2, <2>1, <2>3, ShownFits, WriteText
  <2>4. CASE Paint \/ MouseByte \/ LoseByte \/ UNCHANGED vars
    <3>1. CASE UNCHANGED console
      <4>1. screen' = screen /\ cursor' = cursor
        BY <2>4 DEF Paint, PaintLine, PaintCursor, MouseByte, mouse_callback, ScrollInHandler,
                    LoseByte, vars, vga
      <4>2. TextInv
        BY <1>2
      <4>. QED
        BY <2>1, <3>1, <4>1, <4>2, TextKept
    <3>. QED
      BY <1>2, <2>1, <2>2, <2>3, <2>4, <3>1 DEF Next, Session, Paint, vars
  <2>. QED
    BY <1>2, <2>1, <2>2, <2>3, <2>4 DEF Next, Session
<1>3. Inv => ScreenIsLine
  BY TextShows DEF VgaInv
<1>. QED
  BY <1>1, <1>2, <1>3, PTL DEF Spec
=============================================================================
