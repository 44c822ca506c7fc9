--------------------------- MODULE KeyboardProofs ---------------------------
(***************************************************************************)
(* Proofs about the keyboard driver, for a ring of any length, any keys    *)
(* and any number of bytes on their way.                                   *)
(***************************************************************************)
EXTENDS Keyboard, SequenceTheorems, TLAPS

-----------------------------------------------------------------------------
(* The inductive invariant.                                                *)

Bytes == {Prefix} \union {Make(k) : k \in Physical} \union {Break(k) : k \in Physical}

\* The i-th byte of w follows a prefix, x being whether the handler has read
\* one just before.
Second(w, x, i) == IF i = 1 THEN x ELSE w[i - 1] = Prefix

\* It makes or breaks a key of K for the handler.
Says(w, x, K, i) == w[i][2] \in K /\ ~ Second(w, x, i)

\* Whether a key of K will be down when the handler has read w, it being d
\* now: the last byte about K decides.
Will(w, x, K, d) ==
    \/ d /\ \A i \in 1 .. Len(w) : ~ Says(w, x, K, i)
    \/ \E i \in 1 .. Len(w) :
        Says(w, x, K, i) /\ w[i][1] = "make" /\ \A j \in i + 1 .. Len(w) : ~ Says(w, x, K, j)

\* A prefix never comes alone or twice.
WireOK(w, x) ==
    /\ w \in Seq(Bytes)
    /\ \A i \in 1 .. Len(w) : w[i] = Prefix => i < Len(w) /\ w[i + 1] # Prefix
    /\ x => w # <<>> /\ w[1] # Prefix

ModifierInv ==
    /\ WireOK(wire, extended)
    /\ Len(wire) <= MaxWire
    /\ held \subseteq Struck
    /\ {shift_down, caps_lock, ctrl_down, extended} \subseteq BOOLEAN
    /\ Will(wire, extended, Shifts, shift_down) => held \intersect Shifts # {}
    /\ Will(wire, extended, {"ctrl"}, ctrl_down) <=> "ctrl" \in held

\* How many places are taken, which is the i-th of them, and what they hold.
Count(h, t) == IF t <= h THEN h - t ELSE h - t + BUFFER_LEN
Place(t, i) == IF t + i - 1 < BUFFER_LEN THEN t + i - 1 ELSE t + i - 1 - BUFFER_LEN
Ring(b, h, t) == [i \in 1 .. Count(h, t) |-> b[Place(t, i)]]
NextPlace(i) == IF i + 1 < BUFFER_LEN THEN i + 1 ELSE 0

RingInv ==
    /\ buffer \in [Places -> Keys \union {NULL}]
    /\ head \in Places /\ tail \in Places
    /\ Ring(buffer, head, tail) \in Seq(Keys)
    /\ key # NULL => head # tail /\ key = buffer[tail]
-----------------------------------------------------------------------------
(* The bytes on their way.                                                 *)

\* What a byte can be.
LEMMA ByteFacts ==
    /\ Prefix[1] = "prefix"
    /\ Prefix \in Bytes /\ Prefix[2] \notin Shifts /\ Prefix[2] \notin {"ctrl"}
    /\ \A b \in Bytes : b # Prefix => b[1] \in {"make", "break"}
    /\ \A k \in Physical :
        /\ Make(k) \in Bytes /\ Make(k) # Prefix /\ Make(k)[1] = "make"
        /\ Break(k) \in Bytes /\ Break(k) # Prefix /\ Break(k)[1] = "break"
        /\ k \notin Extended => Make(k)[2] = k /\ Break(k)[2] = k
<1>4. Prefix[1] = "prefix" /\ \A k : Make(k)[1] = "make" /\ Break(k)[1] = "break"
  BY DEF Prefix, Make, Break
<1>1. Prefix \in Bytes /\ Prefix[2] \notin Shifts /\ Prefix[2] \notin {"ctrl"}
  BY DEF Bytes, Prefix, Shifts
<1>2. ASSUME NEW b \in Bytes, b # Prefix PROVE b[1] \in {"make", "break"}
  <2>1. PICK k \in Physical : b = Make(k) \/ b = Break(k)
    BY <1>2 DEF Bytes
  <2>. QED
    BY <1>4, <2>1
<1>3. ASSUME NEW k \in Physical
      PROVE  /\ Make(k) \in Bytes /\ Make(k) # Prefix /\ Make(k)[1] = "make"
             /\ Break(k) \in Bytes /\ Break(k) # Prefix /\ Break(k)[1] = "break"
             /\ k \notin Extended => Make(k)[2] = k /\ Break(k)[2] = k
  <2>1. Make(k) \in Bytes /\ Break(k) \in Bytes
    BY DEF Bytes
  <2>4. k \notin Extended => Make(k)[2] = k /\ Break(k)[2] = k
    BY DEF Make, Break, Extended
  <2>. QED
    BY <1>4, <2>1, <2>4
<1>. QED
  BY <1>1, <1>2, <1>3, <1>4

\* The last byte of w is not a prefix that waits for its second byte.
Behind(w, x) == IF w = <<>> THEN ~ x ELSE w[Len(w)] # Prefix
Heard(u, w, x, K, d, b) ==
    Will(u, x, K, d) <=> IF b[2] \in K THEN b[1] = "make" ELSE Will(w, x, K, d)

\* A byte sent behind the others that is not the second of two decides for the
\* keys it is about.
LEMMA WillAppend ==
    ASSUME NEW w \in Seq(Bytes), NEW b \in Bytes, NEW x \in BOOLEAN, NEW K, NEW d \in BOOLEAN,
           Behind(w, x), NEW u, u = Append(w, b)
    PROVE  Heard(u, w, x, K, d, b)
<1> DEFINE n == Len(w) + 1
<1>1. Len(w) \in Nat /\ Len(u) = n /\ u[n] = b /\ \A i \in 1 .. Len(w) : u[i] = w[i]
  OBVIOUS
<1>2. \A i \in 1 .. Len(w) : Says(u, x, K, i) <=> Says(w, x, K, i)
  BY <1>1 DEF Says, Second
<1>3. Says(u, x, K, n) <=> b[2] \in K
  <2>1. ~ Second(u, x, n)
    BY <1>1 DEF Second, Behind
  <2>. QED
    BY <1>1, <2>1 DEF Says
<1>4. CASE b[2] \in K
  BY <1>1, <1>3, <1>4 DEF Will, Heard
<1>5. CASE b[2] \notin K
  <2>1. \A i \in 1 .. Len(u) : i \in 1 .. Len(w) \/ ~ Says(u, x, K, i)
    BY <1>1, <1>3, <1>5
  <2>. QED
    BY <1>1, <1>2, <1>5, <2>1 DEF Will, Heard
<1>. QED
  BY <1>4, <1>5

\* What u says of the modifier is what w says.
Unheard(u, w, x, K, d) == Will(u, x, K, d) <=> Will(w, x, K, d)

\* A byte that is the second of two is about no key and decides nothing.
LEMMA WillSecond ==
    ASSUME NEW w \in Seq(Bytes), NEW b \in Bytes, NEW x \in BOOLEAN, NEW K, NEW d \in BOOLEAN,
           w # <<>>, ~ Behind(w, x), NEW u, u = Append(w, b)
    PROVE  Unheard(u, w, x, K, d)
<1> DEFINE n == Len(w) + 1
<1>1. Len(w) \in Nat /\ Len(u) = n /\ u[n] = b /\ \A i \in 1 .. Len(w) : u[i] = w[i]
  OBVIOUS
<1>2. \A i \in 1 .. Len(w) : Says(u, x, K, i) <=> Says(w, x, K, i)
  BY <1>1 DEF Says, Second
<1>3. ~ Says(u, x, K, n)
  <2>1. n # 1 /\ n - 1 = Len(w) /\ Len(w) \in 1 .. Len(w) /\ w[Len(w)] = Prefix
    BY <1>1 DEF Behind
  <2>. QED
    BY <1>1, <2>1 DEF Says, Second
<1>4. \A i \in 1 .. Len(u) : i \in 1 .. Len(w) \/ ~ Says(u, x, K, i)
  BY <1>1, <1>3
<1>. QED
  BY <1>1, <1>2, <1>4 DEF Will, Unheard

\* Reading the first byte.
LEMMA WillTail ==
    ASSUME NEW w \in Seq(Bytes), w # <<>>, NEW x \in BOOLEAN, NEW K, NEW d \in BOOLEAN,
           NEW y, y <=> w[1] = Prefix,
           NEW e, e <=> IF w[1][2] \in K /\ ~ x THEN w[1][1] = "make" ELSE d
    PROVE  Will(Tail(w), y, K, e) <=> Will(w, x, K, d)
<1> DEFINE u == Tail(w)
<1>1. /\ Len(w) \in Nat \ {0} /\ Len(u) = Len(w) - 1 /\ Len(u) \in Nat
      /\ \A i \in 1 .. Len(u) : u[i] = w[i + 1]
  OBVIOUS
<1> HIDE DEF u
<1>2. ASSUME NEW i \in 1 .. Len(u) PROVE Says(u, y, K, i) <=> Says(w, x, K, i + 1)
  <2>1. Second(u, y, i) <=> Second(w, x, i + 1)
    <3>1. CASE i = 1
      BY <1>1, <3>1 DEF Second
    <3>2. CASE i # 1
      <4>1. i - 1 \in 1 .. Len(u) /\ (i - 1) + 1 = i /\ (i + 1) - 1 = i /\ i + 1 # 1
        BY <1>1, <3>2
      <4>. QED
        BY <1>1, <3>2, <4>1 DEF Second
    <3>. QED
      BY <3>1, <3>2
  <2>. QED
    BY <1>1, <2>1 DEF Says
<1>3. Says(w, x, K, 1) <=> w[1][2] \in K /\ ~ x
  BY DEF Says, Second
<1>4. \A i \in 1 .. Len(w) : i = 1 \/ (i - 1 \in 1 .. Len(u) /\ i = (i - 1) + 1)
  BY <1>1
<1>5. \A i \in 1 .. Len(u) : i + 1 \in 1 .. Len(w) /\ (i + 1) - 1 = i
  BY <1>1
<1>6. ASSUME Will(w, x, K, d) PROVE Will(u, y, K, e)
  <2>1. CASE d /\ \A i \in 1 .. Len(w) : ~ Says(w, x, K, i)
    <3>1. 1 \in 1 .. Len(w)
      BY <1>1
    <3>2. e
      BY <1>3, <2>1, <3>1
    <3>3. \A i \in 1 .. Len(u) : ~ Says(u, y, K, i)
      BY <1>2, <1>5, <2>1
    <3>. QED
      BY <3>2, <3>3 DEF Will
  <2>2. CASE ~ (d /\ \A i \in 1 .. Len(w) : ~ Says(w, x, K, i))
    <3>1. PICK i \in 1 .. Len(w) :
            Says(w, x, K, i) /\ w[i][1] = "make" /\ \A j \in i + 1 .. Len(w) : ~ Says(w, x, K, j)
      BY <1>6, <2>2 DEF Will
    <3>2. CASE i = 1
      <4>1. e
        BY <1>3, <3>1, <3>2
      <4>2. \A j \in 1 .. Len(u) : j + 1 \in i + 1 .. Len(w)
        BY <1>1, <3>2
      <4>3. \A j \in 1 .. Len(u) : ~ Says(u, y, K, j)
        BY <1>2, <3>1, <4>2
      <4>. QED
        BY <4>1, <4>3 DEF Will
    <3>3. CASE i # 1
      <4>1. PICK k \in 1 .. Len(u) : i = k + 1
        BY <1>4, <3>3
      <4>2. Says(u, y, K, k) /\ u[k][1] = "make"
        BY <1>1, <1>2, <3>1, <4>1
      <4>3. \A j \in k + 1 .. Len(u) : j \in 1 .. Len(u) /\ j + 1 \in i + 1 .. Len(w)
        BY <1>1, <4>1
      <4>4. \A j \in k + 1 .. Len(u) : ~ Says(u, y, K, j)
        BY <1>2, <3>1, <4>3
      <4>. QED
        BY <4>2, <4>4 DEF Will
    <3>. QED
      BY <3>2, <3>3
  <2>. QED
    BY <2>1, <2>2
<1>7. ASSUME Will(u, y, K, e) PROVE Will(w, x, K, d)
  <2>1. CASE e /\ \A i \in 1 .. Len(u) : ~ Says(u, y, K, i)
    <3>1. \A i \in 1 .. Len(w) : i = 1 \/ ~ Says(w, x, K, i)
      BY <1>2, <1>4, <2>1
    <3>2. CASE Says(w, x, K, 1)
      <4>1. 1 \in 1 .. Len(w) /\ w[1][1] = "make"
        BY <1>1, <1>3, <2>1, <3>2
      <4>2. \A j \in 1 + 1 .. Len(w) : j \in 1 .. Len(w) /\ j # 1
        BY <1>1
      <4>3. \A j \in 1 + 1 .. Len(w) : ~ Says(w, x, K, j)
        BY <3>1, <4>2
      <4>. QED
        BY <3>2, <4>1, <4>3 DEF Will
    <3>3. CASE ~ Says(w, x, K, 1)
      <4>1. d /\ \A i \in 1 .. Len(w) : ~ Says(w, x, K, i)
        BY <1>3, <2>1, <3>1, <3>3
      <4>. QED
        BY <4>1 DEF Will
    <3>. QED
      BY <3>2, <3>3
  <2>2. CASE ~ (e /\ \A i \in 1 .. Len(u) : ~ Says(u, y, K, i))
    <3>1. PICK k \in 1 .. Len(u) :
            Says(u, y, K, k) /\ u[k][1] = "make" /\ \A j \in k + 1 .. Len(u) : ~ Says(u, y, K, j)
      BY <1>7, <2>2 DEF Will
    <3>2. k + 1 \in 1 .. Len(w) /\ Says(w, x, K, k + 1) /\ w[k + 1][1] = "make"
      BY <1>1, <1>2, <1>5, <3>1
    <3>3. \A j \in (k + 1) + 1 .. Len(w) :
            j - 1 \in k + 1 .. Len(u) /\ j - 1 \in 1 .. Len(u) /\ (j - 1) + 1 = j
      BY <1>1, <3>1
    <3>4. ASSUME NEW j \in (k + 1) + 1 .. Len(w) PROVE ~ Says(w, x, K, j)
      <4>1. PICK i \in 1 .. Len(u) : i = j - 1 /\ i \in k + 1 .. Len(u) /\ i + 1 = j
        BY <3>3
      <4>. QED
        BY <1>2, <3>1, <4>1
    <3>. QED
      BY <3>2, <3>4 DEF Will
  <2>. QED
    BY <2>1, <2>2
<1>. QED
  BY <1>6, <1>7 DEF u
-----------------------------------------------------------------------------
(* ModifiersFollow.                                                        *)

\* What Send puts on the wire w, and what the bytes there say then.
Framed(w, k, b) == w \o (IF k \in Extended THEN <<Prefix, b>> ELSE <<b>>)
SentOK(u, w, x, k, b) ==
    /\ WireOK(u, x)
    /\ \A K \in {Shifts, {"ctrl"}}, d \in BOOLEAN :
        Will(u, x, K, d) <=>
            IF k \notin Extended /\ k \in K THEN b = Make(k) ELSE Will(w, x, K, d)

\* Sending a key's bytes changes what is said about that key only.
LEMMA Sent ==
    ASSUME NEW w, NEW x \in BOOLEAN, WireOK(w, x), NEW k \in Physical,
           NEW b \in {Make(k), Break(k)}, NEW u, u = Framed(w, k, b)
    PROVE  SentOK(u, w, x, k, b)
<1>1. /\ w \in Seq(Bytes) /\ Prefix \in Bytes /\ b \in Bytes /\ b # Prefix
      /\ k \notin Extended => b[2] = k
      /\ b[1] = "make" <=> b = Make(k)
  <2>1. Make(k)[1] = "make" /\ Break(k)[1] = "break"
    BY ByteFacts
  <2>. QED
    BY <2>1, ByteFacts DEF WireOK
<1>2. Behind(w, x)
  <2>1. w # <<>> => Len(w) \in 1 .. Len(w)
    BY <1>1
  <2>. QED
    BY <2>1 DEF WireOK, Behind
<1>3. CASE k \notin Extended
  <2>1. u = Append(w, b)
    BY <1>1, <1>3 DEF Framed
  <2>2. WireOK(u, x)
    <3>1. u \in Seq(Bytes) /\ Len(u) = Len(w) + 1 /\ u[Len(w) + 1] = b
      BY <1>1, <2>1
    <3>2. \A i \in 1 .. Len(w) : u[i] = w[i]
      BY <1>1, <2>1
    <3>3. ASSUME NEW i \in 1 .. Len(u), u[i] = Prefix PROVE i < Len(u) /\ u[i + 1] # Prefix
      <4>1. i \in 1 .. Len(w) /\ w[i] = Prefix /\ Len(w) \in Nat
        BY <1>1, <3>1, <3>2, <3>3
      <4>2. i < Len(w) /\ w[i + 1] # Prefix
        BY <4>1 DEF WireOK
      <4>. QED
        BY <3>1, <3>2, <4>1, <4>2
    <3>4. x => u # <<>> /\ u[1] # Prefix
      BY <1>1, <3>1, <3>2 DEF WireOK
    <3>. QED
      BY <3>1, <3>3, <3>4 DEF WireOK
  <2>3. ASSUME NEW K \in {Shifts, {"ctrl"}}, NEW d \in BOOLEAN
        PROVE  Will(u, x, K, d) <=> IF k \in K THEN b = Make(k) ELSE Will(w, x, K, d)
    <3>1. Heard(u, w, x, K, d, b)
      BY <1>1, <1>2, <2>1, WillAppend
    <3>. QED
      BY <1>1, <1>3, <3>1 DEF Heard
  <2>. QED
    BY <1>3, <2>2, <2>3 DEF SentOK
<1>4. CASE k \in Extended
  <2> DEFINE v == Append(w, Prefix)
  <2>1. v \in Seq(Bytes) /\ v # <<>> /\ v[Len(v)] = Prefix /\ u = Append(v, b)
    BY <1>1, <1>4 DEF Framed
  <2>2. WireOK(u, x)
    <3>1. u \in Seq(Bytes) /\ Len(u) = Len(w) + 2 /\ u[Len(w) + 1] = Prefix /\ u[Len(w) + 2] = b
      BY <1>1, <2>1
    <3>2. \A i \in 1 .. Len(w) : u[i] = w[i]
      BY <1>1, <2>1
    <3>3. ASSUME NEW i \in 1 .. Len(u), u[i] = Prefix PROVE i < Len(u) /\ u[i + 1] # Prefix
      <4>1. CASE i \in 1 .. Len(w)
        <5>1. w[i] = Prefix /\ Len(w) \in Nat
          BY <1>1, <3>2, <3>3, <4>1
        <5>2. i < Len(w) /\ w[i + 1] # Prefix
          BY <4>1, <5>1 DEF WireOK
        <5>. QED
          BY <3>1, <3>2, <4>1, <5>1, <5>2
      <4>2. CASE i \notin 1 .. Len(w)
        <5>1. i = Len(w) + 1 /\ i + 1 = Len(w) + 2 /\ Len(w) \in Nat
          BY <1>1, <3>1, <3>3, <4>2
        <5>. QED
          BY <1>1, <3>1, <5>1
      <4>. QED
        BY <4>1, <4>2
    <3>4. x => u # <<>> /\ u[1] # Prefix
      <4>1. ASSUME x PROVE u # <<>> /\ u[1] # Prefix
        <5>1. w # <<>> /\ w[1] # Prefix
          BY <4>1 DEF WireOK
        <5>2. 1 \in 1 .. Len(w)
          BY <1>1, <5>1
        <5>. QED
          BY <3>1, <3>2, <5>1, <5>2
      <4>. QED
        BY <4>1
    <3>. QED
      BY <3>1, <3>3, <3>4 DEF WireOK
  <2> HIDE DEF v
  <2>3. ASSUME NEW K \in {Shifts, {"ctrl"}}, NEW d \in BOOLEAN
        PROVE  Will(u, x, K, d) <=> Will(w, x, K, d)
    <3>1. Prefix[2] \notin K
      BY ByteFacts
    <3>2. Will(v, x, K, d) <=> Will(w, x, K, d)
      <4>1. Heard(v, w, x, K, d, Prefix)
        BY <1>1, <1>2, WillAppend DEF v
      <4>. QED
        BY <3>1, <4>1 DEF Heard
    <3>3. Will(u, x, K, d) <=> Will(v, x, K, d)
      <4>1. ~ Behind(v, x)
        BY <2>1 DEF Behind
      <4>2. b \in Bytes
        BY <1>1
      <4>3. Unheard(u, v, x, K, d)
        BY <2>1, <4>1, <4>2, WillSecond
      <4>. QED
        BY <4>3 DEF Unheard
    <3>. QED
      BY <3>2, <3>3
  <2>. QED
    BY <1>4, <2>2, <2>3 DEF SentOK
<1>. QED
  BY <1>3, <1>4

\* The keys of the two modifiers are no extended ones.
LEMMA ModifierKeys == Shifts \intersect Extended = {} /\ "ctrl" \notin Extended
BY KeysAssumption DEF Extended, Shifts

\* What a byte read makes of the modifiers.
LEMMA Read ==
    ASSUME ModifierInv, keyboard_callback
    PROVE  /\ wire # <<>> /\ wire' = Tail(wire) /\ UNCHANGED held
           /\ extended' <=> wire[1] = Prefix
           /\ shift_down' <=> IF wire[1][2] \in Shifts /\ ~ extended
                              THEN wire[1][1] = "make" ELSE shift_down
           /\ ctrl_down' <=> IF wire[1][2] \in {"ctrl"} /\ ~ extended
                             THEN wire[1][1] = "make" ELSE ctrl_down
           /\ {shift_down, caps_lock, ctrl_down, extended}' \subseteq BOOLEAN
<1>1. /\ wire # <<>> /\ wire' = Tail(wire) /\ UNCHANGED held
      /\ wire \in Seq(Bytes) /\ {shift_down, caps_lock, ctrl_down, extended} \subseteq BOOLEAN
  BY DEF keyboard_callback, ModifierInv, WireOK
<1>2. Head(wire) = wire[1] /\ wire[1] \in Bytes
  BY <1>1
<1>3. CASE PrefixByte
  <2>1. Prefix[2] \notin Shifts /\ Prefix[2] \notin {"ctrl"}
    BY ByteFacts
  <2>. QED
    BY <1>1, <1>2, <1>3, <2>1 DEF PrefixByte
<1>4. CASE ExtendedByte
  BY <1>1, <1>2, <1>4 DEF ExtendedByte
<1>5. CASE BreakByte
  <2>1. wire[1][1] = "break" /\ wire[1] # Prefix /\ ~ extended
    <3>1. Prefix[1] = "prefix"
      BY ByteFacts
    <3>2. wire[1][1] = "break" /\ ~ extended
      BY <1>2, <1>5 DEF BreakByte
    <3>. QED
      BY <3>1, <3>2
  <2>. QED
    BY <1>1, <1>2, <1>5, <2>1 DEF BreakByte
<1>6. CASE MakeByte
  <2>1. wire[1][1] = "make" /\ wire[1] # Prefix /\ ~ extended
    <3>1. Prefix[1] = "prefix"
      BY ByteFacts
    <3>2. wire[1][1] = "make" /\ ~ extended
      BY <1>2, <1>6 DEF MakeByte
    <3>. QED
      BY <3>1, <3>2
  <2>. QED
    BY <1>1, <1>2, <1>6, <2>1 DEF MakeByte
<1>. QED
  BY <1>3, <1>4, <1>5, <1>6 DEF keyboard_callback

\* Every step keeps the modifiers in step with the wire.
LEMMA ModifierStep == ModifierInv /\ [Next]_vars => ModifierInv'
<1> SUFFICES ASSUME ModifierInv, [Next]_vars PROVE ModifierInv'
  OBVIOUS
<1>0. /\ extended \in BOOLEAN /\ shift_down \in BOOLEAN /\ ctrl_down \in BOOLEAN
      /\ WireOK(wire, extended)
  BY DEF ModifierInv
<1>1. ASSUME UNCHANGED <<held, wire, shift_down, caps_lock, ctrl_down, extended>>
      PROVE  ModifierInv'
  BY <1>1 DEF ModifierInv
<1>2. ASSUME NEW k \in Struck, Press(k) PROVE ModifierInv'
  <2>1. /\ wire' = Framed(wire, k, Make(k))
        /\ held' = held \union {k} /\ k \in Physical /\ Len(wire') <= MaxWire
        /\ UNCHANGED <<shift_down, caps_lock, ctrl_down, extended>>
    BY <1>2, StruckAssumption DEF Press, Send, driver, Framed
  <2>2. /\ WireOK(wire', extended)
        /\ \A K \in {Shifts, {"ctrl"}}, d \in BOOLEAN :
            Will(wire', extended, K, d) <=>
                IF k \notin Extended /\ k \in K THEN Make(k) = Make(k) ELSE Will(wire, extended, K, d)
    <3>1. SentOK(wire', wire, extended, k, Make(k))
      BY <1>0, <2>1, Sent
    <3>. QED
      BY <3>1 DEF SentOK
  <2>3. Will(wire', extended, Shifts, shift_down) => held' \intersect Shifts # {}
    BY <1>0, <2>1, <2>2 DEF ModifierInv
  <2>4. Will(wire', extended, {"ctrl"}, ctrl_down) <=> "ctrl" \in held'
    BY <1>0, <2>1, <2>2, ModifierKeys DEF ModifierInv
  <2>. QED
    BY <2>1, <2>2, <2>3, <2>4 DEF ModifierInv
<1>3. ASSUME NEW k \in Struck, Release(k) PROVE ModifierInv'
  <2>1. /\ wire' = Framed(wire, k, Break(k))
        /\ held' = held \ {k} /\ k \in Physical /\ Len(wire') <= MaxWire /\ Break(k) # Make(k)
        /\ UNCHANGED <<shift_down, caps_lock, ctrl_down, extended>>
    <3>1. Break(k) # Make(k)
      BY StruckAssumption, ByteFacts
    <3>. QED
      BY <1>3, <3>1, StruckAssumption DEF Release, Send, driver, Framed
  <2>2. /\ WireOK(wire', extended)
        /\ \A K \in {Shifts, {"ctrl"}}, d \in BOOLEAN :
            Will(wire', extended, K, d) <=>
                IF k \notin Extended /\ k \in K THEN Break(k) = Make(k) ELSE Will(wire, extended, K, d)
    <3>1. SentOK(wire', wire, extended, k, Break(k))
      BY <1>0, <2>1, Sent
    <3>. QED
      BY <3>1 DEF SentOK
  <2>3. Will(wire', extended, Shifts, shift_down) => held' \intersect Shifts # {}
    BY <1>0, <2>1, <2>2, ModifierKeys DEF ModifierInv
  <2>4. Will(wire', extended, {"ctrl"}, ctrl_down) <=> "ctrl" \in held'
    BY <1>0, <2>1, <2>2, ModifierKeys DEF ModifierInv
  <2>. QED
    BY <2>1, <2>2, <2>3, <2>4 DEF ModifierInv
<1>4. ASSUME keyboard_callback PROVE ModifierInv'
  <2>1. /\ wire # <<>> /\ wire' = Tail(wire) /\ UNCHANGED held
        /\ extended' <=> wire[1] = Prefix
        /\ shift_down' <=> IF wire[1][2] \in Shifts /\ ~ extended
                           THEN wire[1][1] = "make" ELSE shift_down
        /\ ctrl_down' <=> IF wire[1][2] \in {"ctrl"} /\ ~ extended
                          THEN wire[1][1] = "make" ELSE ctrl_down
        /\ {shift_down, caps_lock, ctrl_down, extended}' \subseteq BOOLEAN
    BY <1>4, Read
  <2>2. wire \in Seq(Bytes)
    BY <1>0 DEF WireOK
  <2>3. Will(wire', extended', Shifts, shift_down') <=> Will(wire, extended, Shifts, shift_down)
    BY <1>0, <2>1, <2>2, WillTail
  <2>4. Will(wire', extended', {"ctrl"}, ctrl_down') <=> Will(wire, extended, {"ctrl"}, ctrl_down)
    BY <1>0, <2>1, <2>2, WillTail
  <2>5. WireOK(wire', extended')
    <3>1. /\ wire' \in Seq(Bytes) /\ Len(wire') = Len(wire) - 1 /\ Len(wire) \in Nat \ {0}
          /\ \A i \in 1 .. Len(wire') : wire'[i] = wire[i + 1]
      BY <2>1, <2>2
    <3>2. ASSUME NEW i \in 1 .. Len(wire'), wire'[i] = Prefix
          PROVE  i < Len(wire') /\ wire'[i + 1] # Prefix
      <4>1. i + 1 \in 1 .. Len(wire) /\ wire[i + 1] = Prefix
        BY <3>1, <3>2
      <4>2. i + 1 < Len(wire) /\ wire[(i + 1) + 1] # Prefix
        BY <1>0, <4>1 DEF WireOK
      <4>. QED
        BY <3>1, <4>2
    <3>3. extended' => wire' # <<>> /\ wire'[1] # Prefix
      <4>1. ASSUME extended' PROVE wire' # <<>> /\ wire'[1] # Prefix
        <5>1. 1 \in 1 .. Len(wire) /\ wire[1] = Prefix
          BY <2>1, <3>1, <4>1
        <5>2. 1 < Len(wire) /\ wire[1 + 1] # Prefix
          BY <1>0, <5>1 DEF WireOK
        <5>. QED
          BY <3>1, <5>2
      <4>. QED
        BY <4>1
    <3>. QED
      BY <3>1, <3>2, <3>3 DEF WireOK
  <2>6. Len(wire') <= MaxWire
    <3>1. Len(wire') = Len(wire) - 1 /\ Len(wire) \in Nat /\ Len(wire) <= MaxWire
      BY <2>1, <2>2 DEF ModifierInv
    <3>. QED
      BY <3>1, KeyboardAssumption
  <2>. QED
    BY <2>1, <2>3, <2>4, <2>5, <2>6 DEF ModifierInv
<1>5. ASSUME PollRead \/ PollReturn PROVE ModifierInv'
  BY <1>1, <1>5 DEF PollRead, PollReturn, driver
<1>6. CASE UNCHANGED vars
  BY <1>1, <1>6 DEF vars, driver
<1>. QED
  BY <1>2, <1>3, <1>4, <1>5, <1>6 DEF Next

\* At boot nothing is held and nothing on its way.
LEMMA ModifierInit == Init => ModifierInv
<1> SUFFICES ASSUME Init PROVE ModifierInv
  OBVIOUS
<1>1. /\ wire = <<>> /\ held = {} /\ ~ shift_down /\ ~ ctrl_down /\ ~ extended
      /\ {shift_down, caps_lock, ctrl_down, extended} \subseteq BOOLEAN
  BY DEF Init
<1>2. Len(wire) = 0 /\ wire \in Seq(Bytes)
  BY <1>1
<1>3. WireOK(wire, extended)
  BY <1>1, <1>2 DEF WireOK
<1>4. ~ Will(wire, extended, Shifts, shift_down) /\ ~ Will(wire, extended, {"ctrl"}, ctrl_down)
  BY <1>1, <1>2 DEF Will
<1>. QED
  BY <1>1, <1>2, <1>3, <1>4, KeyboardAssumption DEF ModifierInv

\* What the handler will take the modifiers for, and that bytes come in
\* pairs behind a prefix, always hold.
THEOREM ModifierInvariant == Spec => []ModifierInv
BY ModifierInit, ModifierStep, PTL DEF Spec

\* No modifier sticks, whatever order keys go down and up in and however many
\* bytes wait (keyboard.c:46-126).
THEOREM ModifiersNeverStick == Spec => []ModifiersFollow
<1>1. ASSUME ModifierInv PROVE ModifiersFollow
  <2> SUFFICES ASSUME wire = <<>>
               PROVE  /\ shift_down => held \intersect Shifts # {}
                      /\ ctrl_down <=> "ctrl" \in held
                      /\ ~ extended
    BY DEF ModifiersFollow
  <2>1. ~ extended
    BY <1>1 DEF ModifierInv, WireOK
  <2>2. \A i \in 1 .. Len(wire) : FALSE
    OBVIOUS
  <2>3. /\ Will(wire, extended, Shifts, shift_down) <=> shift_down
        /\ Will(wire, extended, {"ctrl"}, ctrl_down) <=> ctrl_down
    BY <1>1, <2>2 DEF Will, ModifierInv
  <2>. QED
    BY <1>1, <2>1, <2>3 DEF ModifierInv
<1>. QED
  BY <1>1, ModifierInvariant, PTL
-----------------------------------------------------------------------------
(* The ring.                                                               *)

\* Counting around the ring, which the prover does not do with a length it
\* does not know.
LEMMA Modulo ==
    ASSUME NEW x \in Nat, x < 2 * BUFFER_LEN
    PROVE  x % BUFFER_LEN = IF x < BUFFER_LEN THEN x ELSE x - BUFFER_LEN
<1> DEFINE q == x \div BUFFER_LEN
           m == x % BUFFER_LEN
<1>1. BUFFER_LEN \in Nat \ {0}
  BY KeyboardAssumption
<1>2. q \in Int /\ m \in 0 .. BUFFER_LEN - 1 /\ x = BUFFER_LEN * q + m
  BY <1>1
<1> HIDE DEF q, m
<1>3. q = 0 \/ q = 1
  <2>1. q <= -1 => BUFFER_LEN * q <= - BUFFER_LEN
    BY <1>1, <1>2
  <2>2. q >= 2 => BUFFER_LEN * q >= 2 * BUFFER_LEN
    BY <1>1, <1>2
  <2>3. BUFFER_LEN * q \in Int
    BY <1>1, <1>2
  <2>. QED
    BY <1>1, <1>2, <2>1, <2>2, <2>3
<1>4. m = IF x < BUFFER_LEN THEN x ELSE x - BUFFER_LEN
  BY <1>1, <1>2, <1>3
<1>. QED
  BY <1>4 DEF m

\* The place behind one, and what waits, without the remainders.
LEMMA Around ==
    /\ \A i \in Places : (i + 1) % BUFFER_LEN = NextPlace(i) /\ NextPlace(i) \in Places
    /\ RingInv => Waiting = Ring(buffer, head, tail)
<1>0. BUFFER_LEN \in Nat /\ BUFFER_LEN >= 2
  BY KeyboardAssumption
<1>1. ASSUME NEW i \in Places
      PROVE  (i + 1) % BUFFER_LEN = NextPlace(i) /\ NextPlace(i) \in Places
  <2>1. i + 1 \in Nat /\ i + 1 < 2 * BUFFER_LEN
    BY <1>0 DEF Places
  <2>. QED
    BY <1>0, <2>1, Modulo DEF NextPlace, Places
<1>2. ASSUME RingInv PROVE Waiting = Ring(buffer, head, tail)
  <2>1. head \in Places /\ tail \in Places
    BY <1>2 DEF RingInv
  <2>2. (head - tail + BUFFER_LEN) % BUFFER_LEN = Count(head, tail)
    <3>1. head - tail + BUFFER_LEN \in Nat /\ head - tail + BUFFER_LEN < 2 * BUFFER_LEN
      BY <1>0, <2>1 DEF Places
    <3>. QED
      BY <1>0, <2>1, <3>1, Modulo DEF Count, Places
  <2>3. ASSUME NEW i \in 1 .. Count(head, tail)
        PROVE  (tail + i - 1) % BUFFER_LEN = Place(tail, i)
    <3> DEFINE j == tail + i - 1
    <3>1. j \in Nat /\ j < 2 * BUFFER_LEN
      BY <1>0, <2>1 DEF Places, Count
    <3>2. j < BUFFER_LEN \/ j >= BUFFER_LEN
      BY <1>0, <3>1
    <3>3. Place(tail, i) = IF j < BUFFER_LEN THEN j ELSE j - BUFFER_LEN
      BY <1>0, <2>1 DEF Place, Places
    <3> HIDE DEF j
    <3>4. j % BUFFER_LEN = IF j < BUFFER_LEN THEN j ELSE j - BUFFER_LEN
      BY <1>0, <3>1, Modulo
    <3>. QED
      BY <3>3, <3>4 DEF j
  <2>. QED
    BY <2>2, <2>3 DEF Waiting, Ring
<1>. QED
  BY <1>1, <1>2

\* What waits in r, then one key more, in s.
OneMore(r, s, k) == Len(r) < BUFFER_LEN - 1 /\ s = Append(r, k)

\* A key put at the head when the place behind it is not the tail's, ...
LEMMA Pushed ==
    ASSUME NEW b \in [Places -> Keys \union {NULL}], NEW h \in Places, NEW t \in Places,
           Ring(b, h, t) \in Seq(Keys), NEW k \in Keys, NextPlace(h) # t,
           NEW c, c = [b EXCEPT ![h] = k]
    PROVE  OneMore(Ring(b, h, t), Ring(c, NextPlace(h), t), k)
<1> DEFINE n == Count(h, t)
           r == Ring(b, h, t)
           s == Ring(c, NextPlace(h), t)
<1>0. BUFFER_LEN \in Nat /\ BUFFER_LEN >= 2 /\ h \in Nat /\ t \in Nat
  BY KeyboardAssumption DEF Places
<1>1. n \in Nat /\ n < BUFFER_LEN - 1 /\ Count(NextPlace(h), t) = n + 1
  BY <1>0 DEF Count, NextPlace, Places
<1>2. Place(t, n + 1) = h
  BY <1>0 DEF Place, Count, Places
<1>3. \A i \in 1 .. n : Place(t, i) \in Places \ {h}
  BY <1>0 DEF Place, Count, Places
<1>4. Len(r) = n /\ DOMAIN r = 1 .. n /\ \A i \in 1 .. n : r[i] = b[Place(t, i)]
  BY <1>1 DEF Ring
<1>5. s = [i \in 1 .. n + 1 |-> c[Place(t, i)]]
  BY <1>1 DEF Ring
<1>6. \A i \in 1 .. n + 1 : s[i] = IF i = n + 1 THEN k ELSE r[i]
  <2> TAKE i \in 1 .. n + 1
  <2>1. CASE i = n + 1
    BY <1>2, <1>5, <2>1
  <2>2. CASE i # n + 1
    <3>1. i \in 1 .. n
      BY <1>1, <2>2
    <3>2. c[Place(t, i)] = b[Place(t, i)]
      BY <1>3, <3>1
    <3>. QED
      BY <1>4, <1>5, <2>2, <3>1, <3>2
  <2>. QED
    BY <2>1, <2>2
<1> HIDE DEF n, r, s
<1>7. /\ r \in Seq(Keys) /\ Append(r, k) \in Seq(Keys) /\ Len(Append(r, k)) = n + 1
      /\ \A i \in 1 .. n + 1 : Append(r, k)[i] = IF i = n + 1 THEN k ELSE r[i]
  <2>1. r \in Seq(Keys)
    BY DEF r
  <2>. QED
    BY <1>1, <1>4, <2>1
<1>9. s \in Seq(Keys) /\ Len(s) = n + 1
  <2>1. \A i \in 1 .. n + 1 : s[i] \in Keys
    BY <1>1, <1>4, <1>6, <1>7
  <2>. QED
    BY <1>1, <1>5, <2>1
<1>8. s = Append(r, k)
  BY <1>6, <1>7, <1>9, SeqEqual
<1>. QED
  BY <1>1, <1>4, <1>8 DEF r, s, OneMore

\* ... and the tail moved on.
LEMMA Taken ==
    ASSUME NEW b \in [Places -> Keys \union {NULL}], NEW h \in Places, NEW t \in Places,
           Ring(b, h, t) \in Seq(Keys), h # t
    PROVE  /\ Ring(b, h, t) # <<>> /\ Ring(b, h, t)[1] = b[t]
           /\ Ring(b, h, NextPlace(t)) = Tail(Ring(b, h, t))
<1> DEFINE n == Count(h, t)
           r == Ring(b, h, t)
           s == Ring(b, h, NextPlace(t))
<1>0. BUFFER_LEN \in Nat /\ BUFFER_LEN >= 2 /\ h \in Nat /\ t \in Nat
  BY KeyboardAssumption DEF Places
<1>1. n \in Nat \ {0} /\ Count(h, NextPlace(t)) = n - 1
  BY <1>0 DEF Count, NextPlace, Places
<1>2. \A i \in 1 .. n - 1 : Place(NextPlace(t), i) = Place(t, i + 1)
  BY <1>0 DEF Place, Count, NextPlace, Places
<1>3. Place(t, 1) = t
  BY <1>0 DEF Place, Places
<1>4. Len(r) = n /\ DOMAIN r = 1 .. n /\ \A i \in 1 .. n : r[i] = b[Place(t, i)]
  BY <1>1 DEF Ring
<1>5. s = [i \in 1 .. n - 1 |-> b[Place(NextPlace(t), i)]]
  BY <1>1 DEF Ring
<1>6. \A i \in 1 .. n - 1 : s[i] = r[i + 1]
  <2> TAKE i \in 1 .. n - 1
  <2>1. i + 1 \in 1 .. n
    BY <1>1
  <2>. QED
    BY <1>2, <1>4, <1>5, <2>1
<1> HIDE DEF n, r, s
<1>7. r \in Seq(Keys)
  BY DEF r
<1>8. r # <<>> /\ r[1] = b[t]
  BY <1>1, <1>3, <1>4, <1>7
<1>9. /\ Tail(r) \in Seq(Keys) /\ Len(Tail(r)) = n - 1
      /\ \A i \in 1 .. n - 1 : Tail(r)[i] = r[i + 1]
  BY <1>1, <1>4, <1>7, <1>8, HeadTailProperties
<1>11. s \in Seq(Keys) /\ Len(s) = n - 1
  <2>1. \A i \in 1 .. n - 1 : s[i] \in Keys
    BY <1>1, <1>4, <1>6, <1>7
  <2>. QED
    BY <1>1, <1>5, <2>1
<1>10. s = Tail(r)
  BY <1>6, <1>9, <1>11, SeqEqual
<1>. QED
  BY <1>8, <1>10 DEF r, s

\* The key in keyboard_poll's hand is still the first of the ring.
LEMMA PendingIs == RingInv => Pending = Ring(buffer, head, tail)
<1> SUFFICES ASSUME RingInv PROVE Pending = Ring(buffer, head, tail)
  OBVIOUS
<1> DEFINE r == Ring(buffer, head, tail)
<1>1. Waiting = r /\ r \in Seq(Keys)
  BY Around DEF RingInv
<1>2. CASE key = NULL
  BY <1>1, <1>2 DEF Pending
<1>3. CASE key # NULL
  <2>1. r # <<>> /\ r[1] = key
    BY <1>3, Taken DEF RingInv
  <2> HIDE DEF r
  <2>2. r = <<key>> \o SubSeq(r, 2, Len(r))
    BY <1>1, <2>1
  <2>. QED
    BY <1>1, <1>3, <2>2 DEF Pending, r
<1>. QED
  BY <1>2, <1>3

\* A key struck waits behind the others, or finds the ring full.
LEMMA PushStrikes ==
    ASSUME RingInv, NEW k \in Keys, push(k), UNCHANGED <<tail, key>>
    PROVE  /\ RingInv'
           /\ \/ Ring(buffer', head', tail') = Ring(buffer, head, tail)
              \/ /\ Len(Ring(buffer, head, tail)) < BUFFER_LEN - 1
                 /\ Ring(buffer', head', tail') = Append(Ring(buffer, head, tail), k)
<1>1. /\ buffer \in [Places -> Keys \union {NULL}] /\ head \in Places /\ tail \in Places
      /\ Ring(buffer, head, tail) \in Seq(Keys)
      /\ key # NULL => head # tail /\ key = buffer[tail]
  BY DEF RingInv
<1>2. (head + 1) % BUFFER_LEN = NextPlace(head) /\ NextPlace(head) \in Places
  BY <1>1, Around
<1>3. CASE NextPlace(head) = tail
  BY <1>2, <1>3 DEF push, RingInv
<1>4. CASE NextPlace(head) # tail
  <2>1. buffer' = [buffer EXCEPT ![head] = k] /\ head' = NextPlace(head) /\ tail' = tail /\ key' = key
    BY <1>2, <1>4 DEF push
  <2>2. /\ Len(Ring(buffer, head, tail)) < BUFFER_LEN - 1
        /\ Ring(buffer', head', tail') = Append(Ring(buffer, head, tail), k)
    <3>1. OneMore(Ring(buffer, head, tail), Ring(buffer', NextPlace(head), tail), k)
      BY <1>1, <1>4, <2>1, Pushed
    <3>. QED
      BY <2>1, <3>1 DEF OneMore
  <2>3. Ring(buffer', head', tail') \in Seq(Keys)
    BY <1>1, <2>2
  <2>4. key' # NULL => head' # tail' /\ key' = buffer'[tail']
    BY <1>1, <1>4, <2>1
  <2>. QED
    BY <1>1, <1>2, <2>1, <2>2, <2>3, <2>4 DEF RingInv
<1>. QED
  BY <1>3, <1>4

\* Every step keeps the ring a ring, and does to what waits what the queue
\* says.
LEMMA RingStep ==
    RingInv /\ ModifierInv /\ [Next]_vars => RingInv' /\ [Queue!Next]_Pending
<1> SUFFICES ASSUME RingInv, ModifierInv, [Next]_vars PROVE RingInv' /\ [Queue!Next]_Pending
  OBVIOUS
<1> DEFINE r == Ring(buffer, head, tail)
<1>0. /\ buffer \in [Places -> Keys \union {NULL}] /\ head \in Places /\ tail \in Places
      /\ r \in Seq(Keys) /\ Pending = r
      /\ key # NULL => head # tail /\ key = buffer[tail]
  BY PendingIs DEF RingInv
<1>p. RingInv' => Pending' = Ring(buffer', head', tail')
  <2>1. (RingInv => Pending = Ring(buffer, head, tail))'
    BY PendingIs, PTL
  <2>. QED
    BY <2>1
<1>1. ASSUME UNCHANGED <<buffer, head, tail, key>> PROVE RingInv' /\ UNCHANGED Pending
  <2>1. RingInv'
    BY <1>1 DEF RingInv
  <2>. QED
    BY <1>0, <1>p, <1>1, <2>1
<1>2. ASSUME NEW k \in Struck, Press(k) \/ Release(k) PROVE RingInv' /\ [Queue!Next]_Pending
  BY <1>1, <1>2 DEF Press, Release, driver
<1>3. ASSUME NEW k \in Keys, push(k), UNCHANGED <<tail, key>>
      PROVE  RingInv' /\ [Queue!Next]_Pending
  <2>1. RingInv'
    BY <1>3, PushStrikes
  <2>2. \/ Ring(buffer', head', tail') = r
        \/ Len(r) < BUFFER_LEN - 1 /\ Ring(buffer', head', tail') = Append(r, k)
    BY <1>3, PushStrikes
  <2> HIDE DEF r
  <2>3. UNCHANGED Pending \/ Queue!Strike(k)
    BY <1>0, <1>p, <2>1, <2>2 DEF Queue!Strike
  <2>. QED
    BY <2>1, <2>3 DEF Queue!Next
<1>4. ASSUME keyboard_callback PROVE RingInv' /\ [Queue!Next]_Pending
  <2>1. UNCHANGED <<tail, key>> /\ Head(wire) \in Bytes
    <3>1. wire # <<>> /\ wire \in Seq(Bytes)
      BY <1>4 DEF keyboard_callback, ModifierInv, WireOK
    <3>. QED
      BY <1>4, <3>1 DEF keyboard_callback
  <2>2. CASE PrefixByte \/ BreakByte
    BY <1>1, <2>1, <2>2 DEF PrefixByte, BreakByte
  <2>3. CASE ExtendedByte
    <3>1. CASE Head(wire)[1] = "make" /\ Head(wire)[2] \in Arrows
      <4>1. <<Head(wire)[2], "extended">> \in Keys
        BY <3>1 DEF Keys
      <4>. QED
        BY <1>3, <2>1, <2>3, <3>1, <4>1 DEF ExtendedByte
    <3>2. CASE ~ (Head(wire)[1] = "make" /\ Head(wire)[2] \in Arrows)
      BY <1>1, <2>1, <2>3, <3>2 DEF ExtendedByte
    <3>. QED
      BY <3>1, <3>2
  <2>4. CASE MakeByte
    <3>1. CASE Head(wire)[2] \in Letters
      <4>1. Char(Head(wire)[2]) \in Keys
        BY <3>1 DEF Keys, Char
      <4>. QED
        BY <1>3, <2>1, <2>4, <3>1, <4>1 DEF MakeByte
    <3>2. CASE Head(wire)[2] \notin Letters
      BY <1>1, <2>1, <2>4, <3>2 DEF MakeByte
    <3>. QED
      BY <3>1, <3>2
  <2>. QED
    BY <1>4, <2>2, <2>3, <2>4 DEF keyboard_callback
<1>5. ASSUME PollRead PROVE RingInv' /\ [Queue!Next]_Pending
  <2>1. head # tail /\ key' = buffer[tail] /\ UNCHANGED <<buffer, head, tail>>
    BY <1>5 DEF PollRead, driver
  <2>2. RingInv'
    BY <1>0, <2>1 DEF RingInv
  <2>. QED
    BY <1>0, <1>p, <2>1, <2>2
<1>6. ASSUME PollReturn PROVE RingInv' /\ [Queue!Next]_Pending
  <2>1. /\ head # tail /\ tail' = NextPlace(tail) /\ NextPlace(tail) \in Places
        /\ key' = NULL /\ UNCHANGED <<buffer, head>>
    <3>1. (tail + 1) % BUFFER_LEN = NextPlace(tail) /\ NextPlace(tail) \in Places
      BY <1>0, Around
    <3>. QED
      BY <1>0, <1>6, <3>1 DEF PollReturn
  <2>2. r # <<>> /\ Ring(buffer', head', tail') = Tail(r)
    BY <1>0, <2>1, Taken
  <2> HIDE DEF r
  <2>3. Tail(r) \in Seq(Keys)
    BY <1>0, <2>2
  <2>4. RingInv'
    BY <1>0, <2>1, <2>2, <2>3 DEF RingInv
  <2>5. Queue!Take
    BY <1>0, <1>p, <2>2, <2>4 DEF Queue!Take
  <2>. QED
    BY <2>4, <2>5 DEF Queue!Next
<1>7. CASE UNCHANGED vars
  BY <1>1, <1>7 DEF vars, driver
<1>. QED
  BY <1>2, <1>4, <1>5, <1>6, <1>7 DEF Next

\* keyboard_init empties the ring.
LEMMA RingInit == Init => RingInv /\ Queue!Init
<1> SUFFICES ASSUME Init PROVE RingInv /\ Pending = <<>>
  BY DEF Queue!Init
<1>1. head = 0 /\ tail = 0 /\ key = NULL /\ buffer = [i \in Places |-> NULL] /\ 0 \in Places
  BY KeyboardAssumption DEF Init, Places
<1>2. Count(head, tail) = 0
  BY <1>1 DEF Count
<1>3. Ring(buffer, head, tail) = <<>>
  BY <1>2 DEF Ring
<1>4. RingInv
  BY <1>1, <1>3 DEF RingInv
<1>. QED
  BY <1>3, <1>4, PendingIs

\* Places taken hold keys, and the key in keyboard_poll's hand stays the one
\* at the tail while the handler runs (keyboard.c:35-43, 128-137).
THEOREM RingInvariant == Spec => []RingInv
BY RingInit, RingStep, ModifierInvariant, PTL DEF Spec

\* The variables stay in their types: head and tail in the buffer, what is
\* returned a key.
THEOREM KeyboardTypes == Spec => []TypeOK
<1>1. ASSUME RingInv, ModifierInv PROVE TypeOK
  <2>1. key \in Keys \union {NULL}
    <3>1. key # NULL => key = buffer[tail] /\ tail \in Places
      BY <1>1 DEF RingInv
    <3>. QED
      BY <1>1, <3>1 DEF RingInv
  <2>. QED
    BY <1>1, <2>1 DEF TypeOK, RingInv, ModifierInv
<1>. QED
  BY <1>1, RingInvariant, ModifierInvariant, PTL

\* The ring and keyboard_poll's two steps are a queue: keys come in the order
\* they were struck, each once, and only a new one is ever dropped
\* (keyboard.c:35-43, 128-137).
THEOREM KeyboardImplements == Spec => Implements
BY RingInit, RingStep, RingInvariant, ModifierInvariant, PTL DEF Spec, Implements, Queue!Spec
=============================================================================
